---- MODULE Spec2Model ----
(***************************************************************************)
(* A model of the line-by-line radial-velocity engine of lbl               *)
(* (src/lbl/science/general.py): make_ref_dict, rough_ccf_rv,              *)
(* get_scaling_ratio, estimate_noise_model, bouchy_equation_line and the   *)
(* iteration loop of compute_rv.                                           *)
(*                                                                         *)
(* Numbers.  Fluxes, wavelengths and velocities are integers.  A velocity  *)
(* of 1 shifts a wavelength by 1 (the Doppler factor is linearised over    *)
(* the short wavelength range of the model), a division is rounded to the  *)
(* nearest integer, and the two non-finite floats the code produces are    *)
(* the two values NaN and Inf below, which every arithmetic helper         *)
(* propagates the way numpy does.  Uncertainties (rms, dvrms, bulk_error)  *)
(* are carried in units of 1/ErrScale.                                     *)
(***************************************************************************)
EXTENDS Integers, Sequences, FiniteSets, TLC

\* ------------------------------------------------------------------------
\* Bounds of the model
\* ------------------------------------------------------------------------
\* number of spectral orders of the science frame
NOrders == 2
\* number of pixels of an order
NPix == 12
\* number of exposures (slots of systemic_all / mjdate_all)
NExp == 2
\* largest value given to COMPUTE_RV_N_ITERATIONS
MaxIters == 3
\* largest value given to COMPUTE_RV_MAX_N_GOOD_ITERS
MaxGood == 2
\* number of calls of compute_rv in one behaviour
MaxCalls == 2
\* largest number of rows of a mask handed to make_ref_dict
MaxMask == 3

\* ------------------------------------------------------------------------
\* Non-finite values and arithmetic on them
\* ------------------------------------------------------------------------
\* np.nan
NaN == -999999
\* np.inf
Inf == 999999

IsNaN(x) == x = NaN
IsFinite(x) == x # NaN /\ x # Inf
Abs(x) == IF x < 0 THEN -x ELSE x
Max2(a, b) == IF a > b THEN a ELSE b
Min2(a, b) == IF a < b THEN a ELSE b

\* floor and ceiling of a / b for b > 0
FloorDiv(a, b) == a \div b
CeilDiv(a, b) == -((-a) \div b)
\* a / b rounded to the nearest integer, for b > 0
RDiv(a, b) == (2 * a + b) \div (2 * b)

\* float arithmetic: NaN propagates
FAdd(a, b) == IF IsNaN(a) \/ IsNaN(b) THEN NaN
              ELSE IF a = Inf \/ b = Inf THEN Inf ELSE a + b
FNeg(a) == IF IsNaN(a) THEN NaN ELSE -a
FSub(a, b) == IF IsNaN(a) \/ IsNaN(b) THEN NaN
              ELSE IF a = Inf THEN (IF b = Inf THEN NaN ELSE Inf)
              ELSE IF b = Inf THEN NaN ELSE a - b
FMul(a, b) == IF IsNaN(a) \/ IsNaN(b) THEN NaN
              ELSE IF a = Inf \/ b = Inf
                   THEN (IF a = 0 \/ b = 0 THEN NaN ELSE Inf)
              ELSE a * b
\* a / b as numpy divides under warnings.catch_warnings: 0/0 is nan, x/0 inf
FDiv(a, b) == IF IsNaN(a) \/ IsNaN(b) THEN NaN
              ELSE IF b = 0 THEN (IF a = 0 THEN NaN ELSE Inf)
              ELSE IF a = Inf THEN (IF b = Inf THEN NaN ELSE Inf)
              ELSE IF b = Inf THEN 0
              ELSE IF b < 0 THEN RDiv(-a, -b) ELSE RDiv(a, b)

\* integer square root (floor), by bisection: lo * lo <= n < hi * hi
RECURSIVE ISqrtBetween(_, _, _)
ISqrtBetween(n, lo, hi) ==
    IF hi - lo <= 1 THEN lo
    ELSE LET mid == (lo + hi) \div 2
         IN  IF mid * mid <= n THEN ISqrtBetween(n, mid, hi)
             ELSE ISqrtBetween(n, lo, mid)
ISqrt(n) == IF n <= 0 THEN 0 ELSE ISqrtBetween(n, 0, 46341)

\* strict application: the arguments are computed once, then the operator
\* is applied to their values
Ap1(F(_), a) == CHOOSE r \in {F(x) : x \in {a}} : TRUE
Ap2(F(_, _), a, b) == CHOOSE r \in {F(x, y) : x \in {a}, y \in {b}} : TRUE
Ap3(F(_, _, _), a, b, c) ==
    CHOOSE r \in {F(x, y, z) : x \in {a}, y \in {b}, z \in {c}} : TRUE

\* arrays are functions over 0 .. n-1, as numpy indexes them
Len0(f) == Cardinality(DOMAIN f)
\* an array held as stored values, element by element
Arr(f) == f @@ << >>
\* the sum of the entries 0 .. n of an array of finite values
RECURSIVE SumUpTo(_, _)
SumUpTo(f, n) == IF n < 0 THEN 0 ELSE SumUpTo(f, n - 1) + f[n]
\* np.sum: a NaN entry makes the sum NaN, else an infinite one makes it inf
NpSum(f) ==
    Ap1(LAMBDA g : IF \E i \in DOMAIN g : IsNaN(g[i]) THEN NaN
                   ELSE IF \E i \in DOMAIN g : g[i] = Inf THEN Inf
                   ELSE SumUpTo(g, Len0(g) - 1),
        Arr(f))
\* the sum of the entries 0 .. n that are not NaN
RECURSIVE NanSumUpTo(_, _)
NanSumUpTo(f, n) ==
    IF n < 0 THEN 0 ELSE NanSumUpTo(f, n - 1) + (IF IsNaN(f[n]) THEN 0 ELSE f[n])
\* mp.nansum: the sum of the entries that are not NaN
NanSum(f) ==
    Ap1(LAMBDA g : IF \E i \in DOMAIN g : g[i] = Inf THEN Inf
                   ELSE NanSumUpTo(g, Len0(g) - 1),
        Arr(f))
\* f[a : b] of numpy (b exclusive), re-indexed from 0
Slice(f, a, b) == Arr([i \in 0 .. (b - a - 1) |-> f[a + i]])

\* ------------------------------------------------------------------------
\* Order statistics (lbl.core.math: nanmedian, estimate_sigma)
\* ------------------------------------------------------------------------
\* the indices of the finite entries of an array
FiniteIdx(f) == {i \in DOMAIN f : IsFinite(f[i])}
\* the entry that has k of the entries idx before it in ascending order
Ranked(f, idx, k) ==
    f[CHOOSE i \in idx :
        Cardinality({j \in idx : f[j] < f[i] \/ (f[j] = f[i] /\ j < i)}) = k]

\* the median of the entries idx of f
MedianOf(f, idx) ==
    LET n == Cardinality(idx)
    IN  IF n = 0 THEN NaN
        ELSE IF n % 2 = 1 THEN Ranked(f, idx, (n - 1) \div 2)
        ELSE RDiv(Ranked(f, idx, n \div 2 - 1) + Ranked(f, idx, n \div 2), 2)
\* mp.nanmedian: the median of the finite entries, NaN when there is none
NanMedian(f) == Ap1(LAMBDA g : Ap1(LAMBDA idx : MedianOf(g, idx), FiniteIdx(g)), Arr(f))

\* half the distance between the 16th and the 84th percentile of the entries
\* idx of f
SigmaOf(f, idx) ==
    LET n == Cardinality(idx)
    IN  IF n = 0 THEN NaN
        ELSE RDiv(Ranked(f, idx, RDiv(84 * (n - 1), 100))
                    - Ranked(f, idx, RDiv(16 * (n - 1), 100)), 2)
\* mp.estimate_sigma, NaN when there is no finite entry
EstimateSigma(f) == Ap1(LAMBDA g : Ap1(LAMBDA idx : SigmaOf(g, idx), FiniteIdx(g)), Arr(f))

\* ------------------------------------------------------------------------
\* The instrument: wavelength solution, blaze, parameters
\* ------------------------------------------------------------------------
Orders == 0 .. (NOrders - 1)
Pixels == 0 .. (NPix - 1)

\* inst.get_wave_solution: a linear wavelength grid per order, the orders
\* overlapping at their ends
WaveSol == [base |-> 100, step |-> 2, order_step |-> 16]
wavegrid == [o \in Orders |-> [p \in Pixels |->
                WaveSol.base + o * WaveSol.order_step + p * WaveSol.step]]
\* the blaze handed to compute_rv: flat
blaze == [o \in Orders |-> [p \in Pixels |-> 1]]

\* mp.doppler_shift(wave, velocity): the wavelengths as seen at that velocity
DopplerShift(w, v) == IF IsFinite(v) THEN w - v ELSE NaN

\* inst.params['HP_WIDTH'] * 1000
hp_width == 6
\* inst.params['COMPUTE_LINE_MIN_PIX_WIDTH']
min_line_width == 3
\* inst.params['COMPUTE_LINE_NSIG_THRES']: set by the instrument, here low
\* enough for the lines of the frames to fall on both sides of it
nsig_threshold == 1
\* inst.params['COMPUTE_RV_BULK_ERROR_CONVERGENCE'], as a fraction
converge_thres == [num |-> 1, den |-> 10]
\* the npoints default of estimate_noise_model, scaled to NPix
npoints == 2
\* uncertainties are carried in units of 1 / ErrScale
ErrScale == 100

\* np.gradient of a 1-D array: central differences, one-sided at the ends
Gradient(f) ==
    LET n == Len0(f)
    IN  Arr([i \in DOMAIN f |->
            IF n < 2 THEN 0
            ELSE IF i = 0 THEN f[1] - f[0]
            ELSE IF i = n - 1 THEN f[n - 1] - f[n - 2]
            ELSE RDiv(f[i + 1] - f[i - 1], 2)])

\* get_velo_scale: the high-pass width in pixels, made odd
get_velo_scale(wave_vector, hpw) ==
    Ap1(LAMBDA dvelo : LET width == hpw \div dvelo
                       IN  IF width % 2 = 0 THEN width + 1 ELSE width,
        NanMedian(Gradient(wave_vector)))

\* mp.lowpassfilter: the running median over a centred window of width
\* pixels, clipped at the ends of the array
lowpassfilter(vect, width) ==
    LET n == Len0(vect)
        half == width \div 2
    IN  Arr([i \in DOMAIN vect |->
            NanMedian(Slice(vect, Max2(0, i - half), Min2(n, i + half + 1)))])

\* ------------------------------------------------------------------------
\* The template splines handed to compute_rv (built by spline_template)
\* ------------------------------------------------------------------------
\* the high-passed template in its rest frame: one absorption line every
\* LinePeriod wavelength units, sampled at every integer wavelength
LineProfile == << -400, -300, -100, 0, 0, 0, -100, -300 >>
LinePeriod == Len(LineProfile)
TemplateFlux(w) == LineProfile[(w % LinePeriod) + 1]
\* the wavelength range the template covers
TemplateRange == [lo |-> 97, hi |-> 141]
InTemplate(w) == IsFinite(w) /\ w >= TemplateRange.lo /\ w <= TemplateRange.hi
\* the derivatives of spline_template: np.gradient, per unit velocity
TemplateD1(w) == RDiv(TemplateFlux(w + 1) - TemplateFlux(w - 1), 2)
TemplateD2(w) == RDiv(TemplateD1(w + 1) - TemplateD1(w - 1), 2)
TemplateD3(w) == RDiv(TemplateD2(w + 1) - TemplateD2(w - 1), 2)
\* the continuum of the template before the high-pass
Continuum == 1000

\* splines built with ext=1 return 0 outside the range they were built on
spline0(w) == IF InTemplate(w) THEN Continuum + TemplateFlux(w) ELSE IF IsNaN(w) THEN NaN ELSE 0
spline(w) == IF InTemplate(w) THEN TemplateFlux(w) ELSE IF IsNaN(w) THEN NaN ELSE 0
dspline(w) == IF InTemplate(w) THEN TemplateD1(w) ELSE IF IsNaN(w) THEN NaN ELSE 0
ddspline(w) == IF InTemplate(w) THEN TemplateD2(w) ELSE IF IsNaN(w) THEN NaN ELSE 0
dddspline(w) == IF InTemplate(w) THEN TemplateD3(w) ELSE IF IsNaN(w) THEN NaN ELSE 0
\* the validity spline, in hundredths: 100 inside the template, 0 outside
spline_mask(w) == IF InTemplate(w) THEN 100 ELSE IF IsNaN(w) THEN NaN ELSE 0


\* ------------------------------------------------------------------------
\* make_ref_dict: the reference line table
\* ------------------------------------------------------------------------
\* a sequence as a numpy array
ToArr(s) == Arr([i \in 0 .. (Len(s) - 1) |-> s[i + 1]])
\* s[:-1] and s[1:] of a python list
DropLast(s) == IF Len(s) = 0 THEN << >> ELSE SubSeq(s, 1, Len(s) - 1)
DropFirst(s) == IF Len(s) = 0 THEN << >> ELSE SubSeq(s, 2, Len(s))
\* np.repeat(x, n)
Repeat(x, n) == [i \in 1 .. n |-> x]

ArrMin(f) == CHOOSE x \in {f[i] : i \in DOMAIN f} : \A i \in DOMAIN f : x <= f[i]
ArrMax(f) == CHOOSE x \in {f[i] : i \in DOMAIN f} : \A i \in DOMAIN f : x >= f[i]

\* mp.iuv_spline(wave_ord, xgrid)(w): the pixel position of wavelength w on a
\* linear grid, in hundredths of a pixel (the default ext=0 extrapolates)
XSplineHundredths(wave_ord, w) ==
    FloorDiv((w - wave_ord[0]) * 100, wave_ord[1] - wave_ord[0])

\* the columns make_ref_dict fills with zeros
DiagKeys == {"RMSRATIO", "NPIXLINE", "MEANXPIX", "MEANBLAZE", "AMP_CONTINUUM",
             "CHI2", "CHI2_VALID_CDF"}
GeomKeys == {"ORDER", "WAVE_START", "WAVE_END", "WEIGHT_LINE", "XPIX"}
TableKeys == GeomKeys \cup DiagKeys

\* the lists make_ref_dict accumulates over the orders
EmptyLists == [order |-> << >>, wave_start |-> << >>, wave_end |-> << >>,
               weight_line |-> << >>, xpix |-> << >>]

\* the rows of the mask whose centre lies strictly inside order order_num
GoodMask(mask, wg, order_num) ==
    SelectSeq(mask, LAMBDA m : m.ll_mask_s > ArrMin(wg[order_num])
                               /\ m.ll_mask_s < ArrMax(wg[order_num]))

\* a faulty variant: one flag per surviving centre
OrderFlagsOffByOne(order_num, ngood) == Repeat(order_num, ngood)
\* np.repeat(order_num, np.sum(good) - 1)
OrderFlags(order_num, ngood) == Repeat(order_num, ngood - 1)

\* one pass of the loop over the orders
BuildOrder(acc, mask, wg, order_num) ==
    LET good == GoodMask(mask, wg, order_num)
        centres == [i \in 1 .. Len(good) |-> good[i].ll_mask_s]
        weights == [i \in 1 .. Len(good) |-> good[i].w_mask]
        starts == DropLast(centres)
    IN  IF Len(good) > 0
        THEN [order |-> acc.order \o OrderFlags(order_num, Len(good)),
              wave_start |-> acc.wave_start \o starts,
              wave_end |-> acc.wave_end \o DropFirst(centres),
              weight_line |-> acc.weight_line \o DropLast(weights),
              xpix |-> acc.xpix \o [i \in 1 .. Len(starts) |->
                          XSplineHundredths(wg[order_num], starts[i])]]
        ELSE acc

RECURSIVE BuildOrders(_, _, _)
BuildOrders(mask, wg, n) ==
    IF n < 0 THEN EmptyLists
    ELSE Ap1(LAMBDA acc : BuildOrder(acc, mask, wg, n), BuildOrders(mask, wg, n - 1))

\* the build path of make_ref_dict: the dictionary it returns
RefDictOf(lists) ==
    LET xpix == ToArr(lists.xpix)
        zeros == [i \in DOMAIN xpix |-> 0]
    IN  Arr([k \in TableKeys |->
            CASE k = "ORDER" -> ToArr(lists.order)
              [] k = "WAVE_START" -> ToArr(lists.wave_start)
              [] k = "WAVE_END" -> ToArr(lists.wave_end)
              [] k = "WEIGHT_LINE" -> ToArr(lists.weight_line)
              [] k = "XPIX" -> xpix
              [] OTHER -> Arr(zeros)])
BuildRefDict(mask, wg) == Ap1(RefDictOf, BuildOrders(mask, wg, Len0(wg) - 1))

\* a file that does not exist
NoFile == [exists |-> FALSE]
\* astropy.table.Table: every column must have the length of the first
TableOk(cols) == \A k \in DOMAIN cols : DOMAIN cols[k] = DOMAIN cols["XPIX"]
\* io.write_table: the table is stored row by row under its column names
WriteTable(cols) ==
    [exists |-> TRUE, colnames |-> DOMAIN cols,
     rows |-> [i \in DOMAIN cols["XPIX"] |-> [k \in DOMAIN cols |-> cols[k][i]]]]
\* Table.read: the columns of a stored table
ReadTable(file) ==
    [k \in file.colnames |-> [i \in DOMAIN file.rows |-> file.rows[i][k]]]

\* a faulty variant of the load path: WAVE_END is read from WAVE_START
LoadRefDictSwapped(file) ==
    LET table == ReadTable(file)
    IN  [k \in TableKeys |-> IF k = "WAVE_END" THEN table["WAVE_START"] ELSE table[k]]
\* the load path of make_ref_dict: the columns are copied by name
LoadRefDict(file) ==
    LET table == ReadTable(file)
    IN  [k \in TableKeys |-> table[k]]


\* ------------------------------------------------------------------------
\* rough_ccf_rv: the coarse velocity from a cross-correlation
\* ------------------------------------------------------------------------
\* inst.params['ROUGH_CCF_MIN_RV'], ['ROUGH_CCF_MAX_RV'], ['ROUGH_CCF_RV_STEP']
\* and ['ROUGH_CCF_EWIDTH_GUESS']
ccf_params == [rv_min |-> -4, rv_max |-> 4, rv_step |-> 1, ewidth_guess |-> 3]

\* the 2D -> 1D mask: a pixel is kept when its wavelength is above that of the
\* mirrored pixel of the previous order, below that of the mirrored pixel of
\* the next order, and its flux is finite
CcfKeep(wg, sci, o, p) ==
    LET n == Len0(wg[o])
        last == Len0(wg) - 1
    IN  /\ (o >= 1 => wg[o][p] > wg[o - 1][n - 1 - p])
        /\ (o <= last - 1 => wg[o][p] < wg[o + 1][n - 1 - p])
        /\ IsFinite(sci[o][p])

\* wavegrid[mask], sci_data[mask]: the kept pixels in row-major order
RECURSIVE FlattenUpTo(_, _, _)
FlattenUpTo(wg, sci, k) ==
    IF k < 0 THEN << >>
    ELSE LET n == Len0(wg[0])
             o == k \div n
             p == k % n
             keep == IF Len0(wg) > 1 THEN CcfKeep(wg, sci, o, p)
                     ELSE IsFinite(sci[o][p])
             rest == FlattenUpTo(wg, sci, k - 1)
         IN  IF keep THEN Append(rest, [w |-> wg[o][p], f |-> sci[o][p]]) ELSE rest
Flatten(wg, sci) == FlattenUpTo(wg, sci, Len0(wg) * Len0(wg[0]) - 1)

\* mp.iuv_spline(x, y, k=1, ext=1)(w): linear interpolation between the
\* samples, 0 outside them
Interp1(pts, w) ==
    IF Len(pts) < 2 \/ ~IsFinite(w) THEN NaN
    ELSE IF w < pts[1].w \/ w > pts[Len(pts)].w THEN 0
    ELSE LET ks == {k \in 1 .. (Len(pts) - 1) : pts[k].w <= w /\ w <= pts[k + 1].w}
         IN  IF ks = {} THEN NaN
             ELSE LET lo == CHOOSE j \in ks : \A i \in ks : j <= i
                      a == pts[lo]
                      b == pts[lo + 1]
                  IN  IF b.w = a.w THEN a.f
                      ELSE FDiv(a.f * (b.w - w) + b.f * (w - a.w), b.w - a.w)

\* np.arange(rv_min, rv_max, rv_step)
dvgrid == LET n == CeilDiv(ccf_params.rv_max - ccf_params.rv_min, ccf_params.rv_step)
          IN  [i \in 0 .. (n - 1) |-> ccf_params.rv_min + i * ccf_params.rv_step]

\* the CCF: for every trial velocity the weighted sum of the spectrum at the
\* shifted mask wavelengths
CcfAt(pts, wave_mask, weight_line, v) ==
    NanSum([l \in DOMAIN wave_mask |->
              Ap1(LAMBDA flux : FMul(weight_line[l], flux),
                  Interp1(pts, DopplerShift(wave_mask[l], dvgrid[v])))])
CcfVector(wg, sci, wave_mask, weight_line) ==
    Ap1(LAMBDA pts : Arr([v \in DOMAIN dvgrid |-> CcfAt(pts, wave_mask, weight_line, v)]),
        Flatten(wg, sci))

\* np.argmax: the first index of the largest value
ArgMax(f) == CHOOSE i \in DOMAIN f :
                /\ \A j \in DOMAIN f : f[j] <= f[i]
                /\ \A j \in DOMAIN f : j < i => f[j] < f[i]

\* rough_ccf_rv when the Gaussian fit of scipy's curve_fit converges: its
\* mean is taken at the CCF maximum it is seeded with, its width at the guess
rough_ccf_rv(wg, sci, wave_mask, weight_line) ==
    Ap1(LAMBDA ccf_vector : [systemic_velocity |-> dvgrid[ArgMax(ccf_vector)],
                             ccf_ewidth |-> ccf_params.ewidth_guess],
        CcfVector(wg, sci, wave_mask, weight_line))

\* ------------------------------------------------------------------------
\* get_scaling_ratio (amplitudes are in units of 1 / AmpScale)
\* ------------------------------------------------------------------------
AmpScale == 100

Sq(x) == FMul(x, x)
\* the entries of f where good holds, the others counting as NaN
Where(f, good) == Arr([i \in DOMAIN f |-> IF good[i] THEN f[i] ELSE NaN])

\* the sum of the squares of the entries of f where good holds
SumSqWhere(f, good) == NanSum(Where([i \in DOMAIN f |-> Sq(f[i])], good))

\* the pixels kept by one pass: finite and within 3 sigma of the residuals
PassGood(spectrum1, spectrum2, residuals, sigma_res) ==
    Arr([i \in DOMAIN spectrum1 |->
            /\ IsFinite(spectrum1[i]) /\ IsFinite(spectrum2[i])
            /\ IsFinite(sigma_res) /\ IsFinite(residuals[i])
            /\ Abs(residuals[i]) < 3 * sigma_res])
\* scale = nansum(residuals) / sqrt(nansum(s1^2) * nansum(s2^2)) over the kept
\* pixels, in units of 1 / AmpScale
PassScale(spectrum1, spectrum2, residuals, good) ==
    Ap3(LAMBDA part1, part2, part3 :
            FDiv(FMul(part1, AmpScale), ISqrt(part2) * ISqrt(part3)),
        NanSum(Where(residuals, good)),
        SumSqWhere(spectrum1, good), SumSqWhere(spectrum2, good))
\* one pass of the re-weighted loop: amp / (1 - scale)
ScalingPass(spectrum1, spectrum2, amp) ==
    Ap1(LAMBDA residuals :
          Ap1(LAMBDA sigma_res :
                Ap1(LAMBDA good :
                      Ap1(LAMBDA scale :
                            IF ~IsFinite(amp) \/ ~IsFinite(scale) THEN NaN
                            ELSE FDiv(amp * AmpScale, AmpScale - scale),
                          PassScale(spectrum1, spectrum2, residuals, good)),
                    PassGood(spectrum1, spectrum2, residuals, sigma_res)),
              EstimateSigma(residuals)),
        Arr([i \in DOMAIN spectrum1 |->
                FSub(spectrum1[i], FDiv(FMul(amp, spectrum2[i]), AmpScale))]))

RECURSIVE ScalingLoop(_, _, _, _)
ScalingLoop(spectrum1, spectrum2, amp, n) ==
    IF n = 0 THEN amp
    ELSE Ap1(LAMBDA next_amp : ScalingLoop(spectrum1, spectrum2, next_amp, n - 1),
             ScalingPass(spectrum1, spectrum2, amp))

\* the pixels the first guess uses: finite and within 5 sigma in both spectra
FirstGood(spectrum1, spectrum2, sig1, sig2) ==
    Arr([i \in DOMAIN spectrum1 |->
            /\ IsFinite(spectrum1[i]) /\ IsFinite(spectrum2[i])
            /\ IsFinite(sig1) /\ Abs(spectrum1[i]) < sig1 * 5
            /\ IsFinite(sig2) /\ Abs(spectrum2[i]) < sig2 * 5])
\* the first guess: sqrt(nansum(s1^2) / nansum(s2^2)) over those pixels
FirstAmp(spectrum1, spectrum2, good) ==
    Ap1(LAMBDA ratio : IF IsFinite(ratio) THEN ISqrt(ratio * AmpScale) ELSE ratio,
        Ap2(LAMBDA sum1, sum2 : FDiv(FMul(sum1, AmpScale), sum2),
            SumSqWhere(spectrum1, good), SumSqWhere(spectrum2, good)))

get_scaling_ratio(spectrum1, spectrum2) ==
    Ap1(LAMBDA good :
          Ap1(LAMBDA amp : ScalingLoop(spectrum1, spectrum2, amp, 5),
              FirstAmp(spectrum1, spectrum2, good)),
        Ap2(LAMBDA sig1, sig2 : FirstGood(spectrum1, spectrum2, sig1, sig2),
            EstimateSigma(spectrum1), EstimateSigma(spectrum2)))


\* ------------------------------------------------------------------------
\* estimate_noise_model
\* ------------------------------------------------------------------------
\* the window centres with a finite sigma, as interpolation samples
RECURSIVE SigmaPoints(_, _, _)
SigmaPoints(indices, sigma, n) ==
    IF n < 0 THEN << >>
    ELSE IF IsFinite(sigma[n])
         THEN Append(SigmaPoints(indices, sigma, n - 1), [w |-> indices[n], f |-> sigma[n]])
         ELSE SigmaPoints(indices, sigma, n - 1)

\* mp.iuv_spline(x, y, k=1, ext=3)(w): linear interpolation, the boundary
\* value outside the samples
Interp1Ext3(pts, w) ==
    IF w <= pts[1].w THEN pts[1].f
    ELSE IF w >= pts[Len(pts)].w THEN pts[Len(pts)].f
    ELSE Interp1(pts, w)

\* a faulty variant: a window whose sigma is zero keeps it
WindowSigmaKeepsZero(residuals, indices, np) ==
    Arr([it \in DOMAIN indices |->
            EstimateSigma(Slice(residuals, Max2(0, indices[it] - np),
                                Min2(Len0(residuals), indices[it] + np)))])
\* the sigma of the residuals in the window around every np-th pixel, NaN
\* where it is zero
WindowSigma(residuals, indices, np) ==
    Arr([it \in DOMAIN indices |->
            Ap1(LAMBDA sig : IF sig = 0 THEN NaN ELSE sig,
                EstimateSigma(Slice(residuals, Max2(0, indices[it] - np),
                                    Min2(Len0(residuals), indices[it] + np))))])
\* the rms of one order
NoiseOrder(spectrum_ord, model_ord, np) ==
    Ap2(LAMBDA residuals, indices :
          Ap1(LAMBDA pts :
                IF Len(pts) > 2
                THEN Arr([p \in DOMAIN model_ord |-> Interp1Ext3(pts, p)])
                ELSE Arr([p \in DOMAIN model_ord |-> NaN]),
              Ap1(LAMBDA sigma : SigmaPoints(indices, sigma, Len0(indices) - 1),
                  WindowSigma(residuals, indices, np))),
        Arr([i \in DOMAIN model_ord |-> FSub(spectrum_ord[i], model_ord[i])]),
        Arr([it \in 0 .. (CeilDiv(Len0(model_ord), np) - 1) |-> it * np]))

estimate_noise_model(spectrum, model, np) ==
    Arr([o \in DOMAIN spectrum |-> NoiseOrder(spectrum[o], model[o], np)])

\* ------------------------------------------------------------------------
\* bouchy_equation_line
\* ------------------------------------------------------------------------
\* 1 / np.sqrt(np.sum(1 / (mean_rms / vector) ** 2)), in units of 1 / ErrScale
BouchyRmsOf(vector, mean_rms, sumsq) ==
    LET idx == DOMAIN vector
    IN  IF IsNaN(mean_rms) \/ \E i \in idx : IsNaN(vector[i]) THEN NaN
        ELSE IF \E i \in idx : vector[i] = Inf
             THEN (IF mean_rms = Inf THEN NaN ELSE 0)
        ELSE IF mean_rms = 0
             THEN (IF \E i \in idx : vector[i] = 0 THEN NaN
                   ELSE IF idx = {} THEN Inf ELSE 0)
        ELSE IF mean_rms = Inf \/ sumsq = 0 THEN Inf
        ELSE RDiv(Abs(mean_rms) * ErrScale, Max2(1, ISqrt(sumsq)))
BouchyRms(vector, mean_rms) ==
    Ap1(LAMBDA sumsq : BouchyRmsOf(vector, mean_rms, sumsq),
        NanSum([i \in DOMAIN vector |-> Sq(vector[i])]))

bouchy_equation_line(vector, diff_vector, mean_rms) ==
    [value |-> Ap2(FDiv, NanSum([i \in DOMAIN vector |-> FMul(diff_vector[i], vector[i])]),
                         NanSum([i \in DOMAIN vector |-> Sq(vector[i])])),
     rms_value |-> BouchyRms(vector, mean_rms)]

\* ------------------------------------------------------------------------
\* mp.odd_ratio_mean: the weighted mean of the shifts and its bulk error
\* ------------------------------------------------------------------------
\* the weight 1 / error^2 of an error given in units of 1 / ErrScale
WeightUnit == 1000000
OddWeight(err) == IF err = 0 THEN Inf ELSE RDiv(WeightUnit, err * err)

OddMean(keep, wsum, vsum) ==
    IF keep = {} THEN [rv_mean |-> NaN, bulk_error |-> NaN]
    ELSE IF wsum = Inf THEN [rv_mean |-> NaN, bulk_error |-> 0]
    ELSE IF wsum = 0 THEN [rv_mean |-> NaN, bulk_error |-> Inf]
    ELSE [rv_mean |-> FDiv(vsum, wsum),
          bulk_error |-> ISqrt(RDiv(WeightUnit, wsum))]
odd_ratio_mean(value, error) ==
    Ap1(LAMBDA keep :
          Ap2(LAMBDA wsum, vsum : OddMean(keep, wsum, vsum),
              NanSum([i \in DOMAIN value |->
                        IF i \in keep THEN OddWeight(error[i]) ELSE NaN]),
              NanSum([i \in DOMAIN value |->
                        IF i \in keep THEN FMul(value[i], OddWeight(error[i])) ELSE NaN])),
        {i \in DOMAIN value : IsFinite(value[i]) /\ IsFinite(error[i])})


\* ------------------------------------------------------------------------
\* compute_rv: the pieces of one iteration
\* ------------------------------------------------------------------------
\* weights of the edge pixels are in units of 1 / WeightScale
WeightScale == 100

\* the high-pass of the science data, in place: for every order the low-pass
\* filter of that order's wavelength vector is subtracted from the flux
HighPassOrder(sci_ord, wave_ord) ==
    Ap1(LAMBDA low : Arr([p \in DOMAIN sci_ord |-> FSub(sci_ord[p], low[p])]),
        Ap1(LAMBDA width : lowpassfilter(wave_ord, width),
            get_velo_scale(wave_ord, hp_width)))
HighPass(sci, wg) == Arr([o \in DOMAIN sci |-> HighPassOrder(sci[o], wg[o])])

\* model, dmodel, ddmodel and dddmodel of one order at the trial velocity
ScaledBy(x, amp) == FDiv(FMul(x, amp), AmpScale)
ModelScaled(wave_ord, blaze_ord, model1, amp) ==
    [model |-> Arr([p \in DOMAIN wave_ord |-> ScaledBy(model1[p], amp)]),
     dmodel |-> Arr([p \in DOMAIN wave_ord |->
                       ScaledBy(FMul(dspline(wave_ord[p]), blaze_ord[p]), amp)]),
     ddmodel |-> Arr([p \in DOMAIN wave_ord |->
                        ScaledBy(FMul(ddspline(wave_ord[p]), blaze_ord[p]), amp)]),
     dddmodel |-> Arr([p \in DOMAIN wave_ord |->
                         ScaledBy(FMul(dddspline(wave_ord[p]), blaze_ord[p]), amp)])]
ModelMask(w) == IF IsFinite(spline_mask(w)) /\ spline_mask(w) < 99 THEN NaN ELSE 1
ModelOrder(sci_ord, wave, blaze_ord, rv) ==
    Ap1(LAMBDA wave_ord :
          Ap1(LAMBDA model1 :
                Ap1(LAMBDA amp : ModelScaled(wave_ord, blaze_ord, model1, amp),
                    get_scaling_ratio(sci_ord, model1)),
              Arr([p \in DOMAIN wave |->
                     FMul(FMul(spline(wave_ord[p]), blaze_ord[p]), ModelMask(wave_ord[p]))])),
        Arr([p \in DOMAIN wave |-> DopplerShift(wave[p], FNeg(rv))]))

\* the pixel span of a line: wave2pix of its two ends, floored and ceiled.
\* wave2pix is the spline of the shifted grid of the order, which is linear
LineSpan(wave, rv, wave_start, wave_end) ==
    LET first == DopplerShift(wave[0], FNeg(rv))
        step == wave[1] - wave[0]
    IN  [x_start |-> FloorDiv(wave_start - first, step),
         x_end |-> CeilDiv(wave_end - first, step)]

\* np.nanstd
StdOf(f, idx, mean) ==
    IF idx = {} THEN NaN
    ELSE ISqrt(RDiv(NanSum([i \in DOMAIN f |-> IF i \in idx THEN Sq(f[i] - mean) ELSE NaN]),
                    Cardinality(idx)))
NanStd(f) ==
    Ap2(LAMBDA g, idx : Ap1(LAMBDA mean : StdOf(g, idx, mean),
                            RDiv(NanSum(g), Max2(1, Cardinality(idx)))),
        Arr(f), FiniteIdx(f))

\* a segment times the weight mask
Weighted(seg, weight_mask) ==
    Ap1(LAMBDA sg : Arr([i \in DOMAIN weight_mask |->
                           FDiv(FMul(sg[i], weight_mask[i]), WeightScale)]),
        seg)

\* whether the loop skips a line that mask_keep flags as bad
SkipsFlagged(iteration, keep) == (iteration # 1) /\ ~keep

\* the overlapping pixel after the end of the line: the weight lands in
\* weight_mask[0], as the weight of the pixel before the start did
EdgeAfter(ww1, w0a, x_end, wave_end) ==
    [ww |-> ww1,
     w0 |-> IF ww1[x_end + 1] > wave_end
            THEN FSub(WeightScale, FDiv((ww1[x_end] - wave_end) * WeightScale,
                                        ww1[x_end + 1] - ww1[x_end]))
            ELSE w0a]
\* the overlapping pixel before the start: wavediff = ww_ord[x_start + 1] =
\* ww_ord[x_start] overwrites the grid and divides by the wavelength
EdgeBefore(ww_ord, x_start, x_end, wave_start, wave_end) ==
    IF ww_ord[x_start] < wave_start
    THEN Ap2(LAMBDA ww1, w0a : EdgeAfter(ww1, w0a, x_end, wave_end),
             [ww_ord EXCEPT ![x_start + 1] = ww_ord[x_start]],
             FDiv((ww_ord[x_start + 1] - wave_start) * WeightScale, ww_ord[x_start]))
    ELSE EdgeAfter(ww_ord, WeightScale, x_end, wave_end)

\* what the loop writes for a line that reaches the Bouchy equations.  The
\* result of the 2nd derivative is written to ddv and ddvrms, and the result
\* of the 3rd derivative is then written over it; bout2 and bout3 keep the two
\* results for the properties
LineWrite(st1, line_it, order_num, ww1, mean_xpix, mean_blaze, bout1, bout2, bout3, diff_seg, mean_rms) ==
    [st1 EXCEPT
        !.nwavegrid[order_num] = ww1,
        !.ref["MEANXPIX"][line_it] = mean_xpix,
        !.ref["MEANBLAZE"][line_it] = mean_blaze,
        !.dv[line_it] = bout1.value,
        !.dvrms[line_it] = bout1.rms_value,
        !.ddv[line_it] = bout3.value,
        !.ddvrms[line_it] = bout3.rms_value,
        !.bout2[line_it] = bout2,
        !.bout3[line_it] = bout3,
        !.ref["RMSRATIO"][line_it] = Ap1(LAMBDA sd : FDiv(FMul(sd, 100), mean_rms),
                                        NanStd(diff_seg)),
        !.ref["NPIXLINE"][line_it] = Len0(diff_seg),
        !.ref["CHI2"][line_it] = Ap1(LAMBDA sq : FDiv(sq, Sq(mean_rms)),
                                    NanSum([i \in DOMAIN diff_seg |-> Sq(diff_seg[i])])),
        !.evaluated = @ \cup {line_it}]

\* the three Bouchy equations of a line
LineBouchy(segs, diff_seg, mean_rms) ==
    Ap3(LAMBDA b1, b2, b3 : [bout1 |-> b1, bout2 |-> b2, bout3 |-> b3],
        bouchy_equation_line(segs.d_seg, diff_seg, mean_rms),
        bouchy_equation_line(segs.dd_seg, diff_seg, mean_rms),
        bouchy_equation_line(segs.ddd_seg, diff_seg, mean_rms))

\* the derivative segments of a line, times the weight mask
LineSegments(ctx, order_num, x_start, x_end, weight_mask) ==
    Ap3(LAMBDA d, dd, ddd : [d_seg |-> d, dd_seg |-> dd, ddd_seg |-> ddd],
        Weighted(Slice(ctx.dmodel[order_num], x_start, x_end + 1), weight_mask),
        Weighted(Slice(ctx.ddmodel[order_num], x_start, x_end + 1), weight_mask),
        Weighted(Slice(ctx.dddmodel[order_num], x_start, x_end + 1), weight_mask))

\* the segments of the line, the mean rms and the Bouchy equations
LineMeasure(st1, line_it, ctx, order_num, x_start, x_end, ww1, weight_mask) ==
    Ap2(LAMBDA segs, diff_seg :
          Ap2(LAMBDA sum_weight_mask, sum_rms :
                Ap1(LAMBDA mean_rms :
                      Ap2(LAMBDA mean_xpix, b :
                            LineWrite(st1, line_it, order_num, ww1, mean_xpix,
                                      blaze[order_num][(x_start + x_end) \div 2],
                                      b.bout1, b.bout2, b.bout3, diff_seg, mean_rms),
                          Ap1(LAMBDA sx : FDiv(FMul(sx, 100), sum_weight_mask),
                              NanSum([i \in DOMAIN weight_mask |->
                                        FMul(weight_mask[i], x_start + i)])),
                          LineBouchy(segs, diff_seg, mean_rms)),
                    FDiv(sum_rms, sum_weight_mask)),
              NanSum(weight_mask),
              NanSum([i \in DOMAIN weight_mask |->
                        FMul(ctx.rms[order_num][x_start + i], weight_mask[i])])),
        LineSegments(ctx, order_num, x_start, x_end, weight_mask),
        Weighted([i \in DOMAIN weight_mask |->
                    FSub(ctx.sci[order_num][x_start + i], ctx.model[order_num][x_start + i])],
                 weight_mask))

\* a faulty variant: a line whose span is off the order loses its keep flag
LineAtEdgeClears(st, line_it, ctx, order_num, x_start, x_end) ==
    Ap1(LAMBDA st1 :
          IF x_start < 0 \/ x_end > Len0(st.nwavegrid[order_num]) - 2
          THEN [st1 EXCEPT !.edge = @ \cup {line_it}, !.mask_keep[line_it] = FALSE]
          ELSE Ap1(LAMBDA edge :
                     Ap1(LAMBDA weight_mask :
                           LineMeasure(st1, line_it, ctx, order_num, x_start, x_end,
                                       edge.ww, weight_mask),
                         Arr([i \in 0 .. (x_end - x_start) |->
                                IF i = 0 THEN edge.w0 ELSE WeightScale])),
                   EdgeBefore(st.nwavegrid[order_num], x_start, x_end,
                              ctx.ref["WAVE_START"][line_it], ctx.ref["WAVE_END"][line_it])),
        IF (x_end - x_start) < min_line_width
        THEN [st EXCEPT !.mask_keep[line_it] = FALSE, !.narrow = @ \cup {line_it},
                        !.by_one = IF x_end - x_start = min_line_width - 1
                                   THEN @ \cup {line_it} ELSE @]
        ELSE st)
\* a line that is not skipped: a span narrower than min_line_width clears
\* mask_keep, a span off the order ends the line (edge gets the line), else
\* the line is measured
LineAt(st, line_it, ctx, order_num, x_start, x_end) ==
    Ap1(LAMBDA st1 :
          IF x_start < 0 THEN [st1 EXCEPT !.edge = @ \cup {line_it}]
          ELSE IF x_end > Len0(st.nwavegrid[order_num]) - 2
               THEN [st1 EXCEPT !.edge = @ \cup {line_it}]
          ELSE Ap1(LAMBDA edge :
                     Ap1(LAMBDA weight_mask :
                           LineMeasure(st1, line_it, ctx, order_num, x_start, x_end,
                                       edge.ww, weight_mask),
                         Arr([i \in 0 .. (x_end - x_start) |->
                                IF i = 0 THEN edge.w0 ELSE WeightScale])),
                   EdgeBefore(st.nwavegrid[order_num], x_start, x_end,
                              ctx.ref["WAVE_START"][line_it], ctx.ref["WAVE_END"][line_it])),
        IF (x_end - x_start) < min_line_width
        THEN [st EXCEPT !.mask_keep[line_it] = FALSE, !.narrow = @ \cup {line_it},
                        !.by_one = IF x_end - x_start = min_line_width - 1
                                   THEN @ \cup {line_it} ELSE @]
        ELSE st)

\* the body of the loop over the lines, for line line_it.  st holds what the
\* loop writes: the shifted grid nwavegrid, mask_keep, the shift arrays and
\* the diagnostic columns of the reference table; evaluated gets the lines
\* that reached the Bouchy equations, narrow the lines found narrower than
\* min_line_width, by_one those of them that miss it by one pixel
LineBody(st, line_it, iteration, ctx) ==
    IF SkipsFlagged(iteration, st.mask_keep[line_it]) THEN st
    ELSE Ap2(LAMBDA order_num, span :
               LineAt(st, line_it, ctx, order_num, span.x_start, span.x_end),
             ctx.ref["ORDER"][line_it],
             LineSpan(wavegrid[ctx.ref["ORDER"][line_it]], ctx.sys_rv,
                      ctx.ref["WAVE_START"][line_it], ctx.ref["WAVE_END"][line_it]))

RECURSIVE LineLoop(_, _, _, _)
LineLoop(st, n, iteration, ctx) ==
    IF n < 0 THEN st
    ELSE Ap1(LAMBDA prev : LineBody(prev, n, iteration, ctx),
             LineLoop(st, n - 1, iteration, ctx))


\* ------------------------------------------------------------------------
\* The inputs of compute_rv
\* ------------------------------------------------------------------------
\* ccf_ewidth=None
None == -1

\* the mask the reference table of the compute_rv runs is built from: the
\* line centres of the template with weight -1, a continuum point with weight 1
MaskRow(c, w) == [ll_mask_s |-> c, w_mask |-> w]
RunMask == << MaskRow(104, -1), MaskRow(108, 1), MaskRow(112, -1),
              MaskRow(120, -1), MaskRow(128, -1), MaskRow(136, -1) >>

\* the exposures: science frames of the template star seen at a velocity
\* shift, with the mid-exposure time and the BERV of their header
ExposureChoices ==
    { [shift |-> 1, mjdate |-> 20, berv |-> 1],
      [shift |-> 3, mjdate |-> 30, berv |-> 0] }
\* a frame without signal: every pixel of it is NaN
BlankExposure == [shift |-> NaN, mjdate |-> 25, berv |-> 0]
SciFlux(e) ==
    [o \in Orders |-> [p \in Pixels |->
        IF IsFinite(e.shift) THEN TemplateFlux(wavegrid[o][p] + e.shift) ELSE NaN]]

\* the archive arrays handed to the first call: as allocated by the caller
\* (no velocity yet), or as left by the exposures of an earlier run
ArchiveChoices ==
    { [systemic_all |-> [i \in 0 .. (NExp - 1) |-> NaN],
       mjdate_all |-> [i \in 0 .. (NExp - 1) |-> 0]],
      [systemic_all |-> [i \in 0 .. (NExp - 1) |-> IF i = 0 THEN 1 ELSE -1],
       mjdate_all |-> [i \in 0 .. (NExp - 1) |-> IF i = 0 THEN 18 ELSE 40 + i]] }

\* np.argmin: the first index of the smallest value
ArgMin(f) == CHOOSE i \in DOMAIN f :
                /\ \A j \in DOMAIN f : f[i] <= f[j]
                /\ \A j \in DOMAIN f : j < i => f[i] < f[j]

\* closest = np.argmin(mjdate - mjdate_all)
ClosestDate(mjdate, mjd_all) == ArgMin([i \in DOMAIN mjd_all |-> mjdate - mjd_all[i]])

\* a faulty variant: the archive seeds the velocity whatever reset_rv says
SeedVelocityFromArchive(reset_rv, object_science, sci, ref, sys_all, mjd_all, mjdate, ccf_ewidth) ==
    Ap1(LAMBDA closest :
          [sys_rv |-> sys_all[closest], ccf_ewidth |-> ccf_ewidth,
           ccf_calls |-> 0, closest |-> closest],
        ClosestDate(mjdate, mjd_all))
\* the first estimate of the velocity and of the CCF width
SeedVelocity(reset_rv, object_science, sci, ref, sys_all, mjd_all, mjdate, ccf_ewidth) ==
    IF reset_rv
    THEN IF object_science # "FP"
         THEN Ap1(LAMBDA ccf :
                    [sys_rv |-> ccf.systemic_velocity,
                     ccf_ewidth |-> IF ccf_ewidth = None THEN ccf.ccf_ewidth ELSE ccf_ewidth,
                     ccf_calls |-> 1, closest |-> None],
                  rough_ccf_rv(wavegrid, sci, ref["WAVE_START"], ref["WEIGHT_LINE"]))
         ELSE [sys_rv |-> 0, ccf_ewidth |-> 0, ccf_calls |-> 0, closest |-> None]
    ELSE Ap1(LAMBDA closest :
               [sys_rv |-> sys_all[closest], ccf_ewidth |-> ccf_ewidth,
                ccf_calls |-> 0, closest |-> closest],
             ClosestDate(mjdate, mjd_all))

\* whether the call reaches curve_fit on a CCF the fit does not converge on:
\* rough_ccf_rv is called for a reset of a frame that is not an FP.  fit_ok
\* tells whether the fit converges on the CCF of the science data
FitFails(reset_rv, object_science, fit_ok) ==
    reset_rv /\ object_science # "FP" /\ ~fit_ok
\* a faulty variant: the failure is caught and the guess is kept
CcfRaisesCaught(failed) == FALSE
\* curve_fit raises RuntimeError when the fit does not converge; neither
\* rough_ccf_rv (warnings.catch_warnings records warnings only) nor compute_rv
\* catches it
CcfRaises(failed) == failed

\* a faulty variant: the convergence check never breaks the loop
ConvergenceIgnored(rv_mean, bulk_error) == FALSE
\* the convergence check: |rv_mean| < converge_thres * bulk_error
ConvergenceMet(rv_mean, bulk_error) ==
    /\ IsFinite(rv_mean) /\ ~IsNaN(bulk_error)
    /\ (bulk_error = Inf
        \/ Abs(rv_mean) * ErrScale * converge_thres.den < converge_thres.num * bulk_error)

\* the update of the convergence flag after the loop
ResetFlag(num_to_converge, max_good_num_iters) == num_to_converge >= max_good_num_iters


\* ------------------------------------------------------------------------
\* compute_rv: one iteration of the loop
\* ------------------------------------------------------------------------
Lines(ref) == DOMAIN ref["ORDER"]

\* int(np.floor(x_start)) raises on a NaN pixel position: the pixel span of
\* a line cannot be computed when the trial velocity is not finite
SpanRaises(loc, ref) ==
    /\ ~IsFinite(loc.sys_rv)
    /\ \E l \in Lines(ref) : ~SkipsFlagged(loc.iteration, loc.mask_keep[l])

\* the body of the iteration loop: the locals and the reference table after
\* iteration loc.iteration
\* the number of sigmas measured vs predicted, in hundredths, of the lines
\* within nsig_threshold
NSig(dv, dvrms) ==
    Arr([l \in DOMAIN dv |->
           Ap1(LAMBDA x : IF IsFinite(x) /\ Abs(x) < nsig_threshold * 100 THEN x ELSE NaN,
               FDiv(FMul(FMul(dv[l], ErrScale), 100), dvrms[l]))])

IterationEnd(loc, berv, st, agg) ==
    [loc |-> [loc EXCEPT
                !.iteration = @ + 1,
                !.num_to_converge = @ + 1,
                !.mask_keep = st.mask_keep,
                !.dv = st.dv, !.dvrms = st.dvrms,
                !.ddv = st.ddv, !.ddvrms = st.ddvrms,
                !.stddev_nsig = EstimateSigma(NSig(st.dv, st.dvrms)),
                !.rv_final = [l \in DOMAIN st.dv |->
                                 FSub(FAdd(st.dv[l], loc.sys_rv), berv)],
                !.sys_rv = FAdd(loc.sys_rv, agg.rv_mean),
                !.rv_mean = agg.rv_mean,
                !.bulk_error = agg.bulk_error,
                !.stopped = ConvergenceMet(agg.rv_mean, agg.bulk_error)],
     ref |-> st.ref, evaluated |-> st.evaluated, narrow |-> st.narrow,
     by_one |-> st.by_one, edge |-> st.edge, bout2 |-> st.bout2, bout3 |-> st.bout3,
     nwavegrid |-> st.nwavegrid]

\* no result of bouchy_equation_line yet
NoBouchy == [value |-> NaN, rms_value |-> NaN]

\* what the lines of a pass read: the trial velocity, the science data, the
\* rms, the reference table and the models
LineContext(loc, sci, ref, models, rms) ==
    [sys_rv |-> loc.sys_rv, sci |-> sci, rms |-> rms, ref |-> ref,
     model |-> [o \in Orders |-> models[o].model],
     dmodel |-> [o \in Orders |-> models[o].dmodel],
     ddmodel |-> [o \in Orders |-> models[o].ddmodel],
     dddmodel |-> [o \in Orders |-> models[o].dddmodel]]
\* what the lines of a pass write to, as it is before the first line
LineStart(loc, ref) ==
    [nwavegrid |-> Arr([o \in Orders |-> Arr([p \in Pixels |->
                           DopplerShift(wavegrid[o][p], FNeg(loc.sys_rv))])]),
     mask_keep |-> loc.mask_keep, dv |-> loc.dv, dvrms |-> loc.dvrms,
     ddv |-> loc.ddv, ddvrms |-> loc.ddvrms, ref |-> ref,
     evaluated |-> {}, narrow |-> {}, by_one |-> {}, edge |-> {},
     bout2 |-> [l \in Lines(ref) |-> NoBouchy],
     bout3 |-> [l \in Lines(ref) |-> NoBouchy]]
IterationLines(loc, sci, ref, models, rms) ==
    Ap2(LAMBDA ctx, st0 : LineLoop(st0, Len0(ref["ORDER"]) - 1, loc.iteration, ctx),
        LineContext(loc, sci, ref, models, rms), LineStart(loc, ref))

IterationBody(loc, sci, ref, berv) ==
    Ap1(LAMBDA models :
          Ap1(LAMBDA rms :
                Ap1(LAMBDA st :
                      Ap1(LAMBDA agg : IterationEnd(loc, berv, st, agg),
                          odd_ratio_mean(st.dv, st.dvrms)),
                    IterationLines(loc, sci, ref, models, rms)),
              estimate_noise_model(sci, Arr([o \in Orders |-> models[o].model]), npoints)),
        Arr([o \in Orders |-> ModelOrder(sci[o], wavegrid[o], blaze[o], loc.sys_rv)]))


\* ------------------------------------------------------------------------
\* The state of a run
\* ------------------------------------------------------------------------
VARIABLES
    pc,             \* "idle", "loop", "returned" or "raised"
    params,         \* inst.params: n_iters, max_good, object_science
    args,           \* the arguments of the call in progress
    sci_data,       \* the science array the caller holds
    ref_table,      \* the reference table the caller holds
    systemic_all,   \* the archive of velocities
    mjdate_all,     \* the archive of mid-exposure times
    loc,            \* the locals of compute_rv
    outputs,        \* the outputs dictionary of the last return
    hist,           \* what the calls did, kept for the properties
    ncalls,         \* the number of calls of compute_rv so far
    mask_table,     \* the mask handed to make_ref_dict
    reftable_file,  \* the reference table file on disk
    ref_dict,       \* the dictionary make_ref_dict returned last
    ref_built,      \* the dictionary the build path returned
    refpc,          \* "start", "mask", "built", "loaded" or "raised"
    noise,          \* a call of estimate_noise_model: its arguments and its result
    fcall           \* a call of spline_template or of the flattening of rough_ccf_rv

vars == << pc, params, args, sci_data, ref_table, systemic_all, mjdate_all,
           loc, outputs, hist, ncalls, mask_table, reftable_file, ref_dict, ref_built,
           refpc, noise, fcall >>
rvvars == << pc, params, args, sci_data, ref_table, systemic_all, mjdate_all,
             loc, outputs, hist, ncalls >>
refvars == << mask_table, reftable_file, ref_dict, ref_built, refpc >>

\* no call of spline_template or of the flattening is under study
NoCall == [pc |-> "none", args |-> << >>, result |-> << >>]
\* no call of estimate_noise_model is under study
NoNoise == [pc |-> "none", spectrum |-> << >>, model |-> << >>, rms |-> << >>]

\* a faulty variant: the trial velocity of the previous call is kept
InitialLocalsKept(seed, ref) ==
    LET nans == [l \in Lines(ref) |-> NaN]
    IN  [sys_rv |-> IF pc = "returned" THEN loc.sys_rv ELSE seed.sys_rv,
         ccf_ewidth |-> seed.ccf_ewidth,
         iteration |-> 0, num_to_converge |-> 0,
         mask_keep |-> [l \in Lines(ref) |-> TRUE],
         dv |-> nans, ddv |-> nans, dddv |-> nans,
         dvrms |-> nans, ddvrms |-> nans, dddvrms |-> nans,
         rv_final |-> nans, stddev_nsig |-> NaN,
         rv_mean |-> NaN, bulk_error |-> NaN, stopped |-> FALSE]
\* the locals of compute_rv before the first iteration
InitialLocals(seed, ref) ==
    LET nans == [l \in Lines(ref) |-> NaN]
    IN  [sys_rv |-> seed.sys_rv, ccf_ewidth |-> seed.ccf_ewidth,
         iteration |-> 0, num_to_converge |-> 0,
         mask_keep |-> [l \in Lines(ref) |-> TRUE],
         dv |-> nans, ddv |-> nans, dddv |-> nans,
         dvrms |-> nans, ddvrms |-> nans, dddvrms |-> nans,
         rv_final |-> nans, stddev_nsig |-> NaN,
         rv_mean |-> NaN, bulk_error |-> NaN, stopped |-> FALSE]


\* ------------------------------------------------------------------------
\* compute_rv as a state machine
\* ------------------------------------------------------------------------
\* the reference table the caller builds for the run
RunRefTable == BuildRefDict(RunMask, wavegrid)

NoExposure == [shift |-> 0, mjdate |-> 0, berv |-> 0]
NoArgs == [exposure |-> NoExposure, sci_iteration |-> 0, reset_rv |-> TRUE,
           ccf_ewidth |-> None, fit_ok |-> TRUE]
NoOutputs == [RESET_RV |-> FALSE, NUM_ITERATIONS |-> 0, SYSTEMIC_VELOCITY |-> NaN,
              RMSRATIO |-> NaN, CCF_EW |-> None, HP_WIDTH |-> hp_width]
NoSci == [o \in Orders |-> [p \in Pixels |-> 0]]
\* hist: kind of the last call ("first", "next", "rerun_same", "rerun_copy"),
\* its seed, the number of rough_ccf_rv calls and the archive index it read,
\* the values its arguments had on entry, the lines found narrow (detected,
\* by_one), those of them measured in the detecting iteration (measured) or
\* in a later one (late; late2 from the third iteration on), whether the
\* call follows a return with RESET_RV = True, the outputs before it, and
\* whether the Gaussian fit of the call did not converge (fit_failed), and
\* the number of passes of the iteration loop the call has made (iters), the
\* lines the call evaluated and the results of the 2nd and 3rd Bouchy
\* equations of their last evaluation (evaluated, bout2, bout3), what each
\* pass did (passes) and what the last pass started from (last), and the
\* archive slots the calls of the run have written (written)
NoHist == [kind |-> "none", seed |-> NaN, ccf_calls |-> 0, closest |-> None,
           fit_failed |-> FALSE, iters |-> 0, passes |-> << >>, last |-> << >>,
           evaluated |-> {},
           bout2 |-> [l \in Lines(RunRefTable) |-> NoBouchy],
           bout3 |-> [l \in Lines(RunRefTable) |-> NoBouchy],
           sci_in |-> NoSci, ref_in |-> RunRefTable,
           sys_in |-> [i \in 0 .. (NExp - 1) |-> NaN],
           mjd_in |-> [i \in 0 .. (NExp - 1) |-> 0],
           detected |-> {}, by_one |-> {}, late |-> {}, late2 |-> {}, measured |-> {},
           after_reset |-> FALSE, written |-> {},
           before |-> [valid |-> FALSE, SYSTEMIC_VELOCITY |-> NaN, NUM_ITERATIONS |-> 0]]

ParamChoices == [n_iters : 0 .. MaxIters, max_good : 1 .. MaxGood,
                 object_science : {"STAR", "FP"}]

Init ==
    /\ pc = "idle"
    /\ params \in ParamChoices
    /\ args = NoArgs
    /\ sci_data = NoSci
    /\ ref_table = RunRefTable
    /\ \E a \in ArchiveChoices :
          /\ systemic_all = a.systemic_all
          /\ mjdate_all = a.mjdate_all
    /\ loc = InitialLocals([sys_rv |-> NaN, ccf_ewidth |-> None], RunRefTable)
    /\ outputs = NoOutputs
    /\ hist = NoHist
    /\ ncalls = 0
    /\ mask_table = RunMask
    /\ reftable_file = NoFile
    /\ ref_dict = RunRefTable
    /\ ref_built = RunRefTable
    /\ refpc = "built"
    /\ noise = NoNoise
    /\ fcall = NoCall

\* compute_rv up to the iteration loop: the parameters are read, the science
\* data is high-passed in place, the velocity is seeded, the locals are set.
\* When the Gaussian fit of rough_ccf_rv raises, the call ends there
Enter(kind, e, reset_rv, sci_iteration, ccf_ewidth, fit_ok, sci0, ref0, sys0, mjd0) ==
    /\ ncalls < MaxCalls
    /\ args' = [exposure |-> e, sci_iteration |-> sci_iteration,
                reset_rv |-> reset_rv, ccf_ewidth |-> ccf_ewidth, fit_ok |-> fit_ok]
    /\ ref_table' = ref0
    /\ systemic_all' = sys0
    /\ mjdate_all' = mjd0
    /\ ncalls' = ncalls + 1
    /\ \E sci1 \in {HighPass(sci0, wavegrid)} :
        /\ sci_data' = sci1
        /\ IF CcfRaises(FitFails(reset_rv, params.object_science, fit_ok))
           THEN /\ pc' = "raised"
                /\ loc' = InitialLocals([sys_rv |-> NaN, ccf_ewidth |-> ccf_ewidth], ref0)
                /\ hist' = [hist EXCEPT
                              !.kind = kind, !.seed = NaN,
                              !.ccf_calls = 1, !.closest = None,
                              !.fit_failed = TRUE, !.iters = 0, !.passes = << >>, !.last = << >>,
                              !.evaluated = {},
                              !.bout2 = [l \in Lines(ref0) |-> NoBouchy],
                              !.bout3 = [l \in Lines(ref0) |-> NoBouchy],
                              !.sci_in = sci0, !.ref_in = ref0,
                              !.sys_in = sys0, !.mjd_in = mjd0,
                              !.detected = {}, !.by_one = {}, !.late = {}, !.late2 = {},
                              !.measured = {},
                              !.after_reset = (kind = "next" /\ outputs.RESET_RV)]
           ELSE \E seed \in {SeedVelocity(reset_rv, params.object_science, sci1, ref0,
                                          sys0, mjd0, e.mjdate, ccf_ewidth)} :
                /\ pc' = "loop"
                /\ loc' = InitialLocals(seed, ref0)
                /\ hist' = [hist EXCEPT
                              !.kind = kind, !.seed = seed.sys_rv,
                              !.ccf_calls = seed.ccf_calls, !.closest = seed.closest,
                              !.fit_failed = FitFails(reset_rv, params.object_science, fit_ok),
                              !.iters = 0, !.passes = << >>, !.last = << >>,
                              !.evaluated = {},
                              !.bout2 = [l \in Lines(ref0) |-> NoBouchy],
                              !.bout3 = [l \in Lines(ref0) |-> NoBouchy],
                              !.sci_in = sci0, !.ref_in = ref0,
                              !.sys_in = sys0, !.mjd_in = mjd0,
                              !.detected = {}, !.by_one = {}, !.late = {}, !.late2 = {},
                              !.measured = {},
                              !.after_reset = (kind = "next" /\ outputs.RESET_RV)]
    /\ UNCHANGED << params, outputs, refvars, noise, fcall >>

\* the fit outcomes a call can meet: the fit is reached only by a reset of a
\* frame that is not an FP
FitChoices(reset_rv) ==
    IF reset_rv /\ params.object_science # "FP" THEN BOOLEAN ELSE {TRUE}

\* the first exposure of a run
CallFirst ==
    /\ pc = "idle"
    /\ \E e \in ExposureChoices, reset_rv \in BOOLEAN, sci_iteration \in 0 .. (NExp - 1) :
       \E fit_ok \in FitChoices(reset_rv) :
          Enter("first", e, reset_rv, sci_iteration, None, fit_ok, SciFlux(e), ref_table,
                systemic_all, mjdate_all)

\* the exposure after one that returned: the caller hands on RESET_RV, CCF_EW,
\* the reference table and the archive arrays
CallNext ==
    /\ pc = "returned"
    /\ hist.kind \in {"first", "next"}
    /\ args.sci_iteration + 1 < NExp
    /\ \E e \in ExposureChoices, fit_ok \in FitChoices(outputs.RESET_RV) :
          Enter("next", e, outputs.RESET_RV, args.sci_iteration + 1, outputs.CCF_EW,
                fit_ok, SciFlux(e), ref_table, systemic_all, mjdate_all)

\* the call that returned is made again with the very same argument objects;
\* a behaviour is the calls of the loop over the exposures, then at most one
\* call made again
CallSame ==
    /\ pc = "returned"
    /\ hist.kind \in {"first", "next"}
    /\ \E fit_ok \in FitChoices(args.reset_rv) :
          Enter("rerun_same", args.exposure, args.reset_rv, args.sci_iteration,
                args.ccf_ewidth, fit_ok, sci_data, ref_table, systemic_all, mjdate_all)

\* the call that returned is made again with copies holding the values the
\* arguments had before it: the CCF is the same, and so is the outcome of its fit
CallCopy ==
    /\ pc = "returned"
    /\ hist.kind \in {"first", "next"}
    /\ Enter("rerun_copy", args.exposure, args.reset_rv, args.sci_iteration,
             args.ccf_ewidth, args.fit_ok, hist.sci_in, hist.ref_in, hist.sys_in, hist.mjd_in)

\* a faulty variant: the loop makes one pass more than the budget
LoopGoesOnOnceMore == pc = "loop" /\ loc.iteration < params.n_iters + 1 /\ ~loc.stopped
\* the loop goes on: the budget is not used up and no break was taken
LoopGoesOn == pc = "loop" /\ loc.iteration < params.n_iters /\ ~loc.stopped

\* one pass of the iteration loop
Iterate ==
    /\ LoopGoesOn
    /\ ~SpanRaises(loc, ref_table)
    /\ \E r \in {IterationBody(loc, sci_data, ref_table, args.exposure.berv)} :
           /\ loc' = r.loc
           /\ ref_table' = r.ref
           /\ hist' = [hist EXCEPT
                         !.iters = @ + 1,
                         !.passes = Append(@, [rv_mean |-> r.loc.rv_mean,
                                               bulk_error |-> r.loc.bulk_error,
                                               sys_before |-> loc.sys_rv,
                                               sys_after |-> r.loc.sys_rv,
                                               keep_before |-> loc.mask_keep,
                                               keep_after |-> r.loc.mask_keep,
                                               edge |-> r.edge, narrow |-> r.narrow,
                                               evaluated |-> r.evaluated]),
                         !.last = [loc_before |-> loc, ref_before |-> ref_table,
                                   sys_before |-> loc.sys_rv, nwavegrid |-> r.nwavegrid],
                         !.evaluated = @ \cup r.evaluated,
                         !.bout2 = [l \in DOMAIN @ |->
                                      IF l \in r.evaluated THEN r.bout2[l] ELSE @[l]],
                         !.bout3 = [l \in DOMAIN @ |->
                                      IF l \in r.evaluated THEN r.bout3[l] ELSE @[l]],
                         !.late = @ \cup (hist.detected \cap r.evaluated),
                         !.late2 = @ \cup (IF loc.iteration >= 2
                                           THEN hist.detected \cap r.evaluated ELSE {}),
                         !.measured = @ \cup (r.narrow \cap r.evaluated),
                         !.detected = @ \cup r.narrow,
                         !.by_one = @ \cup r.by_one]
    /\ UNCHANGED << pc, params, args, sci_data, systemic_all, mjdate_all,
                    outputs, ncalls, refvars, noise, fcall >>

\* the pixel span of a line cannot be computed: compute_rv raises
Raise ==
    /\ LoopGoesOn
    /\ SpanRaises(loc, ref_table)
    /\ pc' = "raised"
    /\ UNCHANGED << params, args, sci_data, ref_table, systemic_all, mjdate_all,
                    loc, outputs, hist, ncalls, refvars, noise, fcall >>

\* a faulty variant: the mean pixel position of the lines is stored in XPIX
FinalColumnsIntoXpix(ref, l) ==
    [k \in DOMAIN ref \cup {"RV", "DVRMS", "DDV", "DDVRMS", "DDDV", "DDDVRMS"} |->
        CASE k = "RV" -> [i \in Lines(ref) |-> FNeg(l.rv_final[i])]
          [] k = "DVRMS" -> l.dvrms
          [] k = "DDV" -> l.ddv
          [] k = "DDVRMS" -> l.ddvrms
          [] k = "DDDV" -> l.dddv
          [] k = "DDDVRMS" -> l.dddvrms
          [] k = "XPIX" -> ref["MEANXPIX"]
          [] k = "CHI2_VALID_CDF" ->
                [i \in Lines(ref) |-> [chi2 |-> ref["CHI2"][i], dof |-> ref["NPIXLINE"][i]]]
          [] OTHER -> ref[k]]
\* the columns compute_rv adds to the reference table
FinalColumns(ref, l) ==
    [k \in DOMAIN ref \cup {"RV", "DVRMS", "DDV", "DDVRMS", "DDDV", "DDDVRMS"} |->
        CASE k = "RV" -> [i \in Lines(ref) |-> FNeg(l.rv_final[i])]
          [] k = "DVRMS" -> l.dvrms
          [] k = "DDV" -> l.ddv
          [] k = "DDVRMS" -> l.ddvrms
          [] k = "DDDV" -> l.dddv
          [] k = "DDDVRMS" -> l.dddvrms
          [] k = "CHI2_VALID_CDF" ->
                [i \in Lines(ref) |-> [chi2 |-> ref["CHI2"][i], dof |-> ref["NPIXLINE"][i]]]
          [] OTHER -> ref[k]]

\* compute_rv after the loop: the table, the archive slot, the flag, the outputs
Finish ==
    /\ pc = "loop"
    /\ ~LoopGoesOn
    /\ pc' = "returned"
    /\ ref_table' = FinalColumns(ref_table, loc)
    /\ systemic_all' = [systemic_all EXCEPT
                          ![args.sci_iteration] = FSub(loc.sys_rv, args.exposure.berv)]
    /\ mjdate_all' = [mjdate_all EXCEPT ![args.sci_iteration] = args.exposure.mjdate]
    /\ outputs' = [RESET_RV |-> ResetFlag(loc.num_to_converge, params.max_good),
                   NUM_ITERATIONS |-> loc.num_to_converge,
                   SYSTEMIC_VELOCITY |-> loc.sys_rv,
                   RMSRATIO |-> loc.stddev_nsig,
                   CCF_EW |-> loc.ccf_ewidth,
                   HP_WIDTH |-> hp_width]
    /\ hist' = [hist EXCEPT !.before = [valid |-> ncalls > 1,
                                        SYSTEMIC_VELOCITY |-> outputs.SYSTEMIC_VELOCITY,
                                        NUM_ITERATIONS |-> outputs.NUM_ITERATIONS],
                             !.written = @ \cup {args.sci_iteration}]
    /\ UNCHANGED << params, args, sci_data, loc, ncalls, refvars, noise, fcall >>

Next == CallFirst \/ CallNext \/ CallSame \/ CallCopy \/ Iterate \/ Raise \/ Finish

Spec == Init /\ [][Next]_vars

\* ------------------------------------------------------------------------
\* One call of compute_rv, on any frame, every step of it taken
\* ------------------------------------------------------------------------
\* the only call of the behaviour: on one of the exposures or on a frame
\* without signal, with the default ccf_ewidth or with a width of 40
CallOne ==
    /\ pc = "idle"
    /\ \E e \in ExposureChoices \cup {BlankExposure}, reset_rv \in BOOLEAN,
          sci_iteration \in 0 .. (NExp - 1), ccf_ewidth \in {None, 40} :
       \E fit_ok \in FitChoices(reset_rv) :
          Enter("first", e, reset_rv, sci_iteration, ccf_ewidth, fit_ok, SciFlux(e),
                ref_table, systemic_all, mjdate_all)

NextLoop == CallOne \/ Iterate \/ Raise \/ Finish

\* weak fairness of Iterate, with ENABLED Iterate written as the guard of the
\* action and the step recognised by the pass it counts
IterateEnabled == LoopGoesOn /\ ~SpanRaises(loc, ref_table)
IterateTaken == IterateEnabled /\ hist'.iters = hist.iters + 1
FairIterate == []<>(~IterateEnabled) \/ []<><<IterateTaken>>_vars

\* compute_rv is sequential code: a call in its loop takes its next step
SpecLoop ==
    /\ Init
    /\ [][NextLoop]_vars
    /\ FairIterate /\ WF_vars(Raise) /\ WF_vars(Finish)

\* ------------------------------------------------------------------------
\* make_ref_dict as a state machine
\* ------------------------------------------------------------------------
\* the masks handed to make_ref_dict: up to MaxMask rows with distinct
\* centres, on and off the ends of the orders, and weights 1 or -1
MaskCentres == {100, 102, 106, 110, 118, 120, 122, 130, 138}
\* the masks of n rows: the rows of a mask file in any order, since
\* make_ref_dict takes the rows as inst.load_mask returns them and does not
\* sort them
MaskRows(n) ==
    {[i \in 1 .. n |-> MaskRow(c[i], w[i])] :
        c \in {f \in [1 .. n -> MaskCentres] : \A i, j \in 1 .. n : f[i] = f[j] => i = j},
        w \in [1 .. n -> {-1, 1}]}

\* before make_ref_dict is called there is no reference table, and no call
\* of compute_rv has been made
InitRef ==
    /\ pc = "idle"
    /\ params = [n_iters |-> 0, max_good |-> 1, object_science |-> "STAR"]
    /\ args = NoArgs
    /\ sci_data = << >>
    /\ ref_table = << >>
    /\ systemic_all = << >>
    /\ mjdate_all = << >>
    /\ loc = << >>
    /\ outputs = NoOutputs
    /\ hist = << >>
    /\ ncalls = 0
    /\ mask_table = << >>
    /\ reftable_file = NoFile
    /\ ref_dict = << >>
    /\ ref_built = << >>
    /\ refpc = "start"
    /\ noise = NoNoise
    /\ fcall = NoCall

\* make_ref_dict loads the mask
RefMask ==
    /\ refpc = "start"
    /\ \E n \in 0 .. MaxMask : mask_table' \in MaskRows(n)
    /\ refpc' = "mask"
    /\ UNCHANGED << rvvars, noise, fcall, reftable_file, ref_dict, ref_built >>

\* make_ref_dict with reftable_exists false: the table is built from the mask
\* and the wave solution, made a Table and written to reftable_file
RefBuild ==
    /\ ~reftable_file.exists
    /\ refpc = "mask"
    /\ \E built \in {BuildRefDict(mask_table, wavegrid)} :
          IF TableOk(built)
          THEN /\ ref_dict' = built
               /\ ref_built' = built
               /\ reftable_file' = WriteTable(built)
               /\ refpc' = "built"
          ELSE /\ refpc' = "raised"
               /\ UNCHANGED << ref_dict, ref_built, reftable_file >>
    /\ UNCHANGED << rvvars, noise, fcall, mask_table >>

\* make_ref_dict with reftable_exists true: the table is read from the file
RefLoad ==
    /\ reftable_file.exists
    /\ ref_dict' = LoadRefDict(reftable_file)
    /\ refpc' = "loaded"
    /\ UNCHANGED << rvvars, noise, fcall, mask_table, reftable_file, ref_built >>

NextRef == RefMask \/ RefBuild \/ RefLoad

SpecRef == InitRef /\ [][NextRef]_vars


\* ------------------------------------------------------------------------
\* spline_template as a state machine
\* ------------------------------------------------------------------------
\* np.gradient of a flux array: NaN and inf propagate to the neighbours
GradientF(f) ==
    LET n == Len0(f)
    IN  Arr([i \in DOMAIN f |->
            IF n < 2 THEN 0
            ELSE IF i = 0 THEN FSub(f[1], f[0])
            ELSE IF i = n - 1 THEN FSub(f[n - 1], f[n - 2])
            ELSE FDiv(FSub(f[i + 1], f[i - 1]), 2)])
\* np.gradient(flux) / grad_log_wave / speed_of_light_ms: the derivative of
\* the flux per unit velocity
PerVelocity(f, twave) ==
    Ap2(LAMBDA g, dw : Arr([i \in DOMAIN f |-> FDiv(g[i], dw[i])]),
        GradientF(f), Gradient(twave))
\* the samples mp.iuv_spline is given: x[valid] and y[valid], up to index n
RECURSIVE SplineSamples(_, _, _, _)
SplineSamples(x, y, valid, n) ==
    IF n < 0 THEN << >>
    ELSE IF valid[n] THEN Append(SplineSamples(x, y, valid, n - 1), [w |-> x[n], f |-> y[n]])
    ELSE SplineSamples(x, y, valid, n - 1)
\* the splines, each as the samples it is built from; tmask is in hundredths
TemplateSplines(ntwave, tflux0, flux, tmask, valid) ==
    LET n == Len0(ntwave) - 1
    IN  [spline0 |-> SplineSamples(ntwave, tflux0, valid, n),
         spline |-> SplineSamples(ntwave, flux.tflux, valid, n),
         dspline |-> SplineSamples(ntwave, flux.dflux, valid, n),
         ddspline |-> SplineSamples(ntwave, flux.ddflux, valid, n),
         dddspline |-> SplineSamples(ntwave, flux.dddflux, valid, n),
         spline_mask |-> SplineSamples(ntwave, tmask, valid, n)]
\* the high-passed flux and its three derivatives
TemplateFluxes(twave, tflux0) ==
    Ap1(LAMBDA tflux :
          Ap1(LAMBDA dflux :
                Ap1(LAMBDA ddflux :
                      [tflux |-> tflux, dflux |-> dflux, ddflux |-> ddflux,
                       dddflux |-> PerVelocity(ddflux, twave)],
                    PerVelocity(dflux, twave)),
              PerVelocity(tflux, twave)),
        Ap1(LAMBDA low : Arr([i \in DOMAIN tflux0 |-> FSub(tflux0[i], low[i])]),
            lowpassfilter(tflux0, get_velo_scale(twave, hp_width))))
spline_template(twave, tflux0, systemic_vel) ==
    Ap1(LAMBDA flux :
          TemplateSplines(
              Arr([i \in DOMAIN twave |-> DopplerShift(twave[i], FNeg(systemic_vel))]),
              tflux0, flux,
              Arr([i \in DOMAIN twave |-> IF IsFinite(flux.tflux[i]) THEN 100 ELSE 0]),
              Arr([i \in DOMAIN twave |->
                     /\ IsFinite(flux.tflux[i]) /\ IsFinite(flux.dflux[i])
                     /\ IsFinite(flux.ddflux[i]) /\ IsFinite(flux.dddflux[i])])),
        TemplateFluxes(twave, tflux0))

\* the templates: the line profile on a continuum, sampled at the spacing of
\* the wavelength solution, with no sample or one run of consecutive samples
\* missing (NaN, or inf), at systemic velocity 0 or 1
TemplateWave == [i \in 0 .. (NPix + 3) |-> WaveSol.base + i * WaveSol.step]
TemplateChoices ==
    {[twave |-> TemplateWave,
      tflux |-> [i \in DOMAIN TemplateWave |->
                   IF a <= i /\ i <= b THEN bad ELSE Continuum + TemplateFlux(TemplateWave[i])],
      systemic_vel |-> v] :
        a \in DOMAIN TemplateWave, b \in {-1} \cup DOMAIN TemplateWave,
        bad \in {NaN, Inf}, v \in {0, 1}}

\* spline_template has been called on a template; no reference table has
\* been made and compute_rv has not been called
InitTemplate ==
    /\ pc = "idle"
    /\ params = [n_iters |-> 0, max_good |-> 1, object_science |-> "STAR"]
    /\ args = NoArgs
    /\ sci_data = << >>
    /\ ref_table = << >>
    /\ systemic_all = << >>
    /\ mjdate_all = << >>
    /\ loc = << >>
    /\ outputs = NoOutputs
    /\ hist = << >>
    /\ ncalls = 0
    /\ mask_table = << >>
    /\ reftable_file = NoFile
    /\ ref_dict = << >>
    /\ ref_built = << >>
    /\ refpc = "start"
    /\ noise = NoNoise
    /\ \E t \in TemplateChoices : fcall = [pc |-> "called", args |-> t, result |-> << >>]

\* spline_template returns the splines; a spline of order 5 cannot be built
\* from fewer than 6 samples
TemplateReturn ==
    /\ fcall.pc = "called"
    /\ \E sps \in {spline_template(fcall.args.twave, fcall.args.tflux,
                                    fcall.args.systemic_vel)} :
          fcall' = IF Len(sps.spline) > 5
                   THEN [fcall EXCEPT !.pc = "returned", !.result = sps]
                   ELSE [fcall EXCEPT !.pc = "raised"]
    /\ UNCHANGED << rvvars, refvars, noise >>

NextTemplate == TemplateReturn

SpecTemplate == InitTemplate /\ [][NextTemplate]_vars


\* ------------------------------------------------------------------------
\* estimate_noise_model as a state machine
\* ------------------------------------------------------------------------
\* the spectra handed to estimate_noise_model are made of blocks of npoints
\* pixels: a block has no signal, is flat, or scatters a little or a lot
NoiseBlocks == {"nan", "flat", "low", "high"}
NoiseRow(kinds) ==
    [p \in Pixels |->
        CASE kinds[p \div npoints] = "nan" -> NaN
          [] kinds[p \div npoints] = "flat" \/ p % npoints = 0 -> 5
          [] kinds[p \div npoints] = "low" -> 7
          [] OTHER -> 11]
BlockIdx == 0 .. (CeilDiv(NPix, npoints) - 1)
\* the orders after the first: no signal at all, flat but for one block,
\* scattered everywhere
NoiseRowsFew ==
    {NoiseRow([b \in BlockIdx |-> "nan"]),
     NoiseRow([b \in BlockIdx |-> IF b = 1 THEN "low" ELSE "flat"]),
     NoiseRow([b \in BlockIdx |-> "high"])}
\* order 0 is any sequence of blocks
NoiseSpectra ==
    {[o \in Orders |-> IF o = 0 THEN NoiseRow(kinds) ELSE rest] :
        kinds \in [BlockIdx -> NoiseBlocks], rest \in NoiseRowsFew}
\* the model is flat, at the level of the spectrum or at zero
NoiseModels == {[o \in Orders |-> [p \in Pixels |-> c]] : c \in {0, 5}}

\* estimate_noise_model has been called with a spectrum and a model; no
\* reference table has been made and compute_rv has not been called
InitNoise ==
    /\ pc = "idle"
    /\ params = [n_iters |-> 0, max_good |-> 1, object_science |-> "STAR"]
    /\ args = NoArgs
    /\ sci_data = << >>
    /\ ref_table = << >>
    /\ systemic_all = << >>
    /\ mjdate_all = << >>
    /\ loc = << >>
    /\ outputs = NoOutputs
    /\ hist = << >>
    /\ ncalls = 0
    /\ mask_table = << >>
    /\ reftable_file = NoFile
    /\ ref_dict = << >>
    /\ ref_built = << >>
    /\ refpc = "start"
    /\ \E spectrum \in NoiseSpectra, model \in NoiseModels :
          noise = [pc |-> "called", spectrum |-> spectrum, model |-> model, rms |-> << >>]
    /\ fcall = NoCall

\* estimate_noise_model runs over every order and returns the rms
NoiseReturn ==
    /\ noise.pc = "called"
    /\ noise' = [noise EXCEPT
                   !.pc = "returned",
                   !.rms = estimate_noise_model(noise.spectrum, noise.model, npoints)]
    /\ UNCHANGED << rvvars, refvars, fcall >>

NextNoise == NoiseReturn

SpecNoise == InitNoise /\ [][NextNoise]_vars


\* ------------------------------------------------------------------------
\* The pixel window of a line as a state machine
\* ------------------------------------------------------------------------
\* the pixel window of a line in a pass that does not skip it as flagged: the
\* span, whether it is narrower than min_line_width, and whether the line
\* reaches the window computation (neither edge test ends it)
LineWindow(wave, sys_rv, wave_start, wave_end) ==
    Ap1(LAMBDA span :
          [x_start |-> span.x_start, x_end |-> span.x_end,
           narrow |-> (span.x_end - span.x_start) < min_line_width,
           reached |-> ~(span.x_start < 0) /\ ~(span.x_end > Len0(wave) - 2)],
        LineSpan(wave, sys_rv, wave_start, wave_end))
\* the windows of the lines of a reference table in the first pass
LineWindows(ref, sys_rv) ==
    [l \in Lines(ref) |-> LineWindow(wavegrid[ref["ORDER"][l]], sys_rv,
                                     ref["WAVE_START"][l], ref["WAVE_END"][l])]

\* the trial velocities of the first pass
WindowVelocities == -1 .. 1

\* the reference table is the one make_ref_dict builds from a mask of the
\* instrument; the first pass of compute_rv computes the windows of its lines
InitWindow ==
    /\ pc = "idle"
    /\ params = [n_iters |-> 1, max_good |-> 1, object_science |-> "STAR"]
    /\ args = NoArgs
    /\ sci_data = << >>
    /\ ref_table = << >>
    /\ systemic_all = << >>
    /\ mjdate_all = << >>
    /\ loc = << >>
    /\ outputs = NoOutputs
    /\ hist = << >>
    /\ ncalls = 0
    /\ \E n \in 2 .. MaxMask : mask_table \in MaskRows(n)
    /\ reftable_file = NoFile
    /\ ref_dict = << >>
    /\ ref_built = << >>
    /\ refpc = "start"
    /\ noise = NoNoise
    /\ \E v \in WindowVelocities :
          fcall = [pc |-> "lines", args |-> [sys_rv |-> v], result |-> << >>]

WindowReturn ==
    /\ fcall.pc = "lines"
    /\ \E ref \in {BuildRefDict(mask_table, wavegrid)} :
          fcall' = [fcall EXCEPT !.pc = "windows",
                                 !.args = [sys_rv |-> fcall.args.sys_rv, ref |-> ref],
                                 !.result = LineWindows(ref, fcall.args.sys_rv)]
    /\ UNCHANGED << rvvars, refvars, noise >>

NextWindow == WindowReturn

SpecWindow == InitWindow /\ [][NextWindow]_vars


\* ------------------------------------------------------------------------
\* Properties of compute_rv
\* ------------------------------------------------------------------------
\* C1: when compute_rv has returned, RESET_RV is False exactly when
\* NUM_ITERATIONS is less than or equal to COMPUTE_RV_MAX_N_GOOD_ITERS
C1_ConvergedIffWithinMaxGood ==
    pc = "returned" =>
        ((outputs.RESET_RV = FALSE) <=> (outputs.NUM_ITERATIONS <= params.max_good))

\* C2: whenever the loop has used all COMPUTE_RV_N_ITERATIONS (one or more)
\* iterations and the convergence test was met in none of them, RESET_RV is
\* True
C2_ExhaustedBudgetIsNotConverged ==
    (pc = "returned" /\ params.n_iters >= 1 /\ loc.iteration = params.n_iters
        /\ ~loc.stopped) =>
        outputs.RESET_RV = TRUE

\* C3: for a stellar exposure called with reset_rv true the first trial
\* velocity is the value rough_ccf_rv returns for the high-passed science data
\* and the line starts and weights of the reference table, rough_ccf_rv is
\* called once, before the first iteration, and no archive entry is read
C3_StellarResetSeedsFromCcf ==
    (pc \in {"loop", "returned", "raised"} /\ params.object_science = "STAR"
        /\ args.reset_rv) =>
        /\ hist.ccf_calls = 1
        /\ hist.closest = None
        /\ (pc = "loop" /\ loc.iteration = 0) =>
              /\ loc.sys_rv = hist.seed
              /\ hist.seed = rough_ccf_rv(wavegrid, HighPass(hist.sci_in, wavegrid),
                                          hist.ref_in["WAVE_START"],
                                          hist.ref_in["WEIGHT_LINE"]).systemic_velocity

\* a stellar exposure that follows one which returned RESET_RV = True has run
\* its iterations from the rough_ccf_rv velocity
C3_Witness ==
    /\ pc = "returned"
    /\ params.object_science = "STAR"
    /\ hist.kind = "next" /\ hist.after_reset /\ args.reset_rv
    /\ hist.ccf_calls = 1
    /\ outputs.NUM_ITERATIONS >= 1

\* C4: for an FP exposure the first trial velocity is the archive velocity
\* systemic_all[i] of the archive entry the call selected, whether reset_rv
\* is true or false
C4_FpSeedsFromArchive ==
    (pc \in {"loop", "returned", "raised"} /\ params.object_science = "FP") =>
        \E i \in DOMAIN hist.sys_in : hist.closest = i /\ hist.seed = hist.sys_in[i]

\* C5: the archive index a call selects minimises |mjdate - mjdate_all[i]|
C5_ClosestIsNearestInTime ==
    (pc \in {"loop", "returned", "raised"} /\ hist.closest # None) =>
        \A j \in DOMAIN hist.mjd_in :
            Abs(args.exposure.mjdate - hist.mjd_in[hist.closest])
                <= Abs(args.exposure.mjdate - hist.mjd_in[j])

\* C6: a line found narrower than COMPUTE_LINE_MIN_PIX_WIDTH in one iteration
\* is evaluated in no later iteration of the same call
C6_NarrowLineNeverEvaluatedLater == hist.late = {}

\* C7: a line whose pixel span is one pixel narrower than the minimum is not
\* evaluated from the third iteration on, and has a row in the returned table
\* whose RV and DVRMS are NaN
C7_NarrowLineRowIsPlaceholder ==
    /\ hist.late2 \cap hist.by_one = {}
    /\ pc = "returned" =>
          \A l \in hist.by_one :
              /\ l \in DOMAIN ref_table["RV"]
              /\ IsNaN(ref_table["RV"][l])
              /\ IsNaN(ref_table["DVRMS"][l])

C10_BuildEmitsConsecutivePairs ==
    /\ refpc # "raised"
    /\ refpc = "built" =>
          /\ \A k \in TableKeys : DOMAIN ref_dict[k] = DOMAIN ref_dict["ORDER"]
          /\ \A o \in Orders :
                LET S == {i \in 1 .. Len(mask_table) :
                            /\ mask_table[i].ll_mask_s > ArrMin(wavegrid[o])
                            /\ mask_table[i].ll_mask_s < ArrMax(wavegrid[o])}
                    pairs == {p \in S \X S :
                                p[1] < p[2] /\ ~ \E k \in S : p[1] < k /\ k < p[2]}
                    rows == {l \in DOMAIN ref_dict["ORDER"] : ref_dict["ORDER"][l] = o}
                IN  /\ Cardinality(rows) = Max2(Cardinality(S) - 1, 0)
                    /\ \A p \in pairs : \E l \in rows :
                          /\ ref_dict["WAVE_START"][l] = mask_table[p[1]].ll_mask_s
                          /\ ref_dict["WAVE_END"][l] = mask_table[p[2]].ll_mask_s
                          /\ ref_dict["WEIGHT_LINE"][l] = mask_table[p[1]].w_mask
                          /\ \A q \in pairs : \A m \in rows :
                                (q[1] < p[1]
                                   /\ ref_dict["WAVE_START"][m] = mask_table[q[1]].ll_mask_s)
                                => m < l

\* a mask that leaves one order without a centre and another with three was
\* built into a table of two lines
C10_Witness ==
    /\ refpc = "built"
    /\ Len0(ref_dict["ORDER"]) = 2
    /\ \E o \in Orders :
          ~ \E i \in 1 .. Len(mask_table) :
                /\ mask_table[i].ll_mask_s > ArrMin(wavegrid[o])
                /\ mask_table[i].ll_mask_s < ArrMax(wavegrid[o])
    /\ \E o \in Orders :
          Cardinality({i \in 1 .. Len(mask_table) :
                         /\ mask_table[i].ll_mask_s > ArrMin(wavegrid[o])
                         /\ mask_table[i].ll_mask_s < ArrMax(wavegrid[o])}) = 3

\* C11: every line the build emits has WAVE_START < WAVE_END, and its ORDER is
\* the index of an order of the wavelength grid whose wavelength range
\* contains WAVE_START and WAVE_END
C11_BuiltLinesAreOrderedAndInOrder ==
    refpc = "built" =>
        \A l \in DOMAIN ref_dict["ORDER"] :
            /\ ref_dict["WAVE_START"][l] < ref_dict["WAVE_END"][l]
            /\ ref_dict["ORDER"][l] \in Orders
            /\ \A k \in {"WAVE_START", "WAVE_END"} :
                  /\ ref_dict[k][l] >= ArrMin(wavegrid[ref_dict["ORDER"][l]])
                  /\ ref_dict[k][l] <= ArrMax(wavegrid[ref_dict["ORDER"][l]])


\* ------------------------------------------------------------------------
\* Further properties of compute_rv
\* ------------------------------------------------------------------------
\* C12: at every point of every call of compute_rv, the ORDER, WAVE_START,
\* WAVE_END, WEIGHT_LINE and XPIX of the reference table are those the table
\* was created with
C12_GeometryIsNeverWritten ==
    \A k \in GeomKeys : ref_table[k] = ref_built[k]

\* a second exposure has returned after two or more iterations that wrote
\* the diagnostic columns of the table
C12_Witness ==
    /\ pc = "returned"
    /\ hist.kind = "next"
    /\ outputs.NUM_ITERATIONS >= 2
    /\ ref_table["NPIXLINE"] # ref_built["NPIXLINE"]
    /\ ref_table["MEANXPIX"] # ref_built["MEANXPIX"]
    /\ \E l \in Lines(ref_table) : IsFinite(ref_table["RV"][l])

C14_LoopIsBounded ==
    /\ [](/\ hist.iters <= params.n_iters
          /\ loc.iteration <= params.n_iters
          /\ pc = "returned" => outputs.NUM_ITERATIONS = hist.iters)
    /\ (pc = "loop") ~> (pc \in {"returned", "raised"})

\* a call on a frame without signal has returned after the one pass of its
\* budget: every shift is NaN and the convergence test was not met
C14_Witness ==
    /\ pc = "returned"
    /\ args.exposure = BlankExposure
    /\ params.n_iters = 1 /\ hist.iters = 1
    /\ \A l \in Lines(ref_table) : IsNaN(loc.dv[l])
    /\ ~loc.stopped

\* C15: when compute_rv has returned, for every line it evaluated DDV and
\* DDVRMS are the value and the rms of bouchy_equation_line on the segment of
\* the 2nd derivative, DDDV and DDDVRMS those on the segment of the 3rd
C15_HigherOrderShiftsAreStored ==
    pc = "returned" =>
        \A l \in hist.evaluated :
            /\ ref_table["DDV"][l] = hist.bout2[l].value
            /\ ref_table["DDVRMS"][l] = hist.bout2[l].rms_value
            /\ ref_table["DDDV"][l] = hist.bout3[l].value
            /\ ref_table["DDDVRMS"][l] = hist.bout3[l].rms_value

\* C17: a ccf_ewidth that is passed is kept: the CCF_EW of the outputs is the
\* value passed, whatever the object type and reset_rv
C17_PassedWidthIsKept ==
    pc = "returned" /\ args.ccf_ewidth # None => outputs.CCF_EW = args.ccf_ewidth

\* the test of the convergence check on the values of one pass
C18_Converged(p) ==
    /\ IsFinite(p.rv_mean)
    /\ \/ p.bulk_error = Inf
       \/ /\ IsFinite(p.bulk_error)
          /\ converge_thres.den * ErrScale * Abs(p.rv_mean) < converge_thres.num * p.bulk_error
C19_Passing ==
    {l \in DOMAIN loc.dv :
        /\ IsFinite(loc.dv[l]) /\ IsFinite(loc.dvrms[l]) /\ loc.dvrms[l] # 0
        /\ Abs(loc.dv[l]) * ErrScale < nsig_threshold * Abs(loc.dvrms[l])}
\* C19: after a pass, rv_mean and bulk_error are the odd-ratio mean of the
\* lines whose |dv / dvrms| is below COMPUTE_LINE_NSIG_THRES, the other
\* lines being discarded
C19_MeanOfPassingLinesOnly ==
    pc \in {"loop", "returned"} /\ hist.passes # << >> =>
        Ap1(LAMBDA agg : loc.rv_mean = agg.rv_mean /\ loc.bulk_error = agg.bulk_error,
            odd_ratio_mean([l \in DOMAIN loc.dv |->
                               IF l \in C19_Passing THEN loc.dv[l] ELSE NaN],
                           loc.dvrms))

\* whether the pixel window of line l is inside the valid pixel range when
\* the trial velocity is sys_rv: x_start >= 0 and x_end <= npix - 2
C20_Inside(l, sys_rv) ==
    Ap1(LAMBDA span : span.x_start >= 0 /\ span.x_end <= NPix - 2,
        LineSpan(wavegrid[ref_table["ORDER"][l]], sys_rv,
                 ref_table["WAVE_START"][l], ref_table["WAVE_END"][l]))
\* C20: a line skipped in a pass because its pixel window is outside the
\* valid pixel range is skipped for that pass only: the skip leaves its keep
\* flag as it was (only the width test of the same pass can clear it), and
\* the line is evaluated in the next pass when its window is inside then
C20_EdgeSkipIsForOnePass ==
    pc \in {"loop", "returned"} =>
        \A k \in 1 .. Len(hist.passes) : \A l \in hist.passes[k].edge :
            /\ ~C20_Inside(l, hist.passes[k].sys_before)
            /\ l \notin hist.passes[k].evaluated
            /\ l \notin hist.passes[k].narrow =>
                  hist.passes[k].keep_after[l] = hist.passes[k].keep_before[l]
            /\ (/\ k < Len(hist.passes)
                /\ hist.passes[k].keep_after[l]
                /\ C20_Inside(l, hist.passes[k + 1].sys_before))
               => l \in hist.passes[k + 1].evaluated
\* a line that kept its flag was skipped off the edge of its order in the
\* first pass and, its window inside in the second, was evaluated there
C20_Witness ==
    /\ pc \in {"loop", "returned"}
    /\ Len(hist.passes) >= 2
    /\ \E l \in hist.passes[1].edge :
          /\ hist.passes[1].keep_after[l]
          /\ ~C20_Inside(l, hist.passes[1].sys_before)
          /\ C20_Inside(l, hist.passes[2].sys_before)
          /\ l \in hist.passes[2].evaluated
          /\ IsFinite(loc.dv[l])

\* C21: the continuum removed from each order of the science flux is the
\* low-pass filter, of the width get_velo_scale gives for the order, of that
\* order's science flux
C21_ContinuumIsOfTheFlux ==
    hist.kind # "none" =>
        \A o \in Orders :
            Ap1(LAMBDA low :
                  \A p \in Pixels : sci_data[o][p] = FSub(hist.sci_in[o][p], low[p]),
                lowpassfilter(hist.sci_in[o], get_velo_scale(wavegrid[o], hp_width)))

\* the lines of a pass taken from the last line down to line 0
RECURSIVE C23_LinesDown(_, _, _, _)
C23_LinesDown(st, l, iteration, ctx) ==
    IF l < 0 THEN st
    ELSE Ap1(LAMBDA next : C23_LinesDown(next, l - 1, iteration, ctx),
             LineBody(st, l, iteration, ctx))
\* the shifts of a pass when its lines are taken in the reverse order
C23_Reversed(p) ==
    Ap1(LAMBDA models :
          Ap1(LAMBDA rms :
                C23_LinesDown(LineStart(p.loc_before, p.ref_before),
                              Len0(p.ref_before["ORDER"]) - 1, p.loc_before.iteration,
                              LineContext(p.loc_before, sci_data, p.ref_before, models, rms)),
              estimate_noise_model(sci_data, Arr([o \in Orders |-> models[o].model]),
                                   npoints)),
        Arr([o \in Orders |->
               ModelOrder(sci_data[o], wavegrid[o], blaze[o], p.loc_before.sys_rv)]))
\* the results of the last pass do not depend on the order of its lines
C23_SameInReverse ==
    Ap1(LAMBDA rev : rev.dv = loc.dv /\ rev.dvrms = loc.dvrms,
        C23_Reversed(hist.last))
\* C23: within a pass no line changes an array another line reads, the
\* shifted wavelength grid among them, and the results of every line are the
\* same for every processing order of the lines
C23_LinesAreIndependent ==
    pc \in {"loop", "returned"} /\ hist.passes # << >> =>
        /\ \A o \in Orders, x \in Pixels :
              hist.last.nwavegrid[o][x]
                = DopplerShift(wavegrid[o][x], FNeg(hist.last.sys_before))
        /\ C23_SameInReverse

\* a wavelength of order o outside the ranges the orders before and after
\* it cover
C24_Outside(w, o) ==
    /\ o >= 1 => w > ArrMax(wavegrid[o - 1])
    /\ o <= NOrders - 2 => w < ArrMin(wavegrid[o + 1])
C24_Flattened(pts) ==
    /\ \A k \in DOMAIN pts :
          /\ IsFinite(pts[k].f)
          /\ \E o \in Orders, p \in Pixels :
                /\ wavegrid[o][p] = pts[k].w /\ sci_data[o][p] = pts[k].f
                /\ C24_Outside(pts[k].w, o)
    /\ \A k \in 1 .. (Len(pts) - 1) : pts[k].w < pts[k + 1].w
\* C24: when rough_ccf_rv flattens the orders, every kept pixel has a finite
\* flux and a wavelength outside the range of the previous and of the next
\* order, and the flattened wavelengths are strictly increasing
C24_FlattenKeepsDisjointPixels ==
    hist.ccf_calls = 1 /\ ~hist.fit_failed =>
        Ap1(C24_Flattened, Flatten(wavegrid, sci_data))

\* C25: in a run over the exposures in turn, an exposure that seeds its trial
\* velocity from the archive reads a slot that the call of an earlier exposure
\* of the run has written: never a slot not written yet, never its own slot
C25_SeedSlotWasWritten ==
    (pc \in {"loop", "raised"} /\ hist.kind \in {"first", "next"} /\ hist.closest # None)
        => (hist.closest \in hist.written /\ hist.closest # args.sci_iteration)

\* C26: the velocity update of a pass is aggregated from the lines evaluated
\* in that pass alone: a line the pass skipped or left out contributes no
\* shift and no uncertainty measured by an earlier pass
C26_OfThisPass(f) ==
    [l \in DOMAIN f |-> IF l \in hist.passes[Len(hist.passes)].evaluated THEN f[l] ELSE NaN]
C26_UpdateIsOfThisPass ==
    (pc \in {"loop", "returned"} /\ hist.passes # << >>)
        => Ap1(LAMBDA agg : /\ hist.passes[Len(hist.passes)].rv_mean = agg.rv_mean
                            /\ hist.passes[Len(hist.passes)].bulk_error = agg.bulk_error,
               odd_ratio_mean(C26_OfThisPass(loc.dv), C26_OfThisPass(loc.dvrms)))

\* C27: when compute_rv has returned for exposure i, the archive is the one
\* it was given with slot i alone changed: systemic_all[i] is the velocity
\* returned as SYSTEMIC_VELOCITY and mjdate_all[i] is the date of the exposure
C27_ArchiveSlotIsTheOutput ==
    pc = "returned"
        => /\ \A j \in DOMAIN systemic_all :
                j # args.sci_iteration
                    => systemic_all[j] = hist.sys_in[j] /\ mjdate_all[j] = hist.mjd_in[j]
           /\ systemic_all[args.sci_iteration] = outputs.SYSTEMIC_VELOCITY
           /\ mjdate_all[args.sci_iteration] = args.exposure.mjdate

\* the window holds one pixel at least and every index read is a pixel
C28_InRange(w) ==
    /\ w.x_end - w.x_start + 1 >= 1
    /\ \A i \in {w.x_start, w.x_start + 1, w.x_end, w.x_end + 1,
                 (w.x_start + w.x_end) \div 2} : i \in Pixels
\* C28: for every line that reaches the window computation, a line just
\* found narrower than the minimum width included, the window
\* x_start .. x_end holds one pixel at least and every pixel index read
\* (x_start .. x_end + 1 and (x_start + x_end) // 2) lies in 0 .. npix - 1
C28_WindowIsInsideTheOrder ==
    fcall.pc = "windows"
        => \A l \in DOMAIN fcall.result :
              fcall.result[l].reached => C28_InRange(fcall.result[l])

\* ------------------------------------------------------------------------
\* Properties of estimate_noise_model
\* ------------------------------------------------------------------------
\* the window centres of an order, and the sigma of the residuals in the
\* window of each centre as mp.estimate_sigma gives it
C16_Centres == {p \in Pixels : p % npoints = 0}
C16_Sigma(o) ==
    Arr([c \in C16_Centres |->
        EstimateSigma([i \in 0 .. (Min2(NPix, c + npoints) - Max2(0, c - npoints) - 1) |->
                          FSub(noise.spectrum[o][Max2(0, c - npoints) + i],
                               noise.model[o][Max2(0, c - npoints) + i])])])
\* the windows that count: sigma finite and not zero
C16_Valid(sigma) == {c \in C16_Centres : IsFinite(sigma[c]) /\ sigma[c] # 0}
\* the value of a pixel comes from the valid windows around it: the sigma of
\* the nearest one at and beyond the ends, between the sigmas of the two
\* that enclose it elsewhere
C16_FromValid(v, sigma, valid, p) ==
    LET below == {c \in valid : c <= p}
        above == {c \in valid : c >= p}
    IN  IF below = {} THEN v = sigma[CHOOSE c \in above : \A d \in above : c <= d]
        ELSE IF above = {} THEN v = sigma[CHOOSE c \in below : \A d \in below : c >= d]
        ELSE LET a == sigma[CHOOSE c \in below : \A d \in below : c >= d]
                 b == sigma[CHOOSE c \in above : \A d \in above : c <= d]
             IN  IsFinite(v) /\ Min2(a, b) <= v /\ v <= Max2(a, b)
C16_OrderOk(rms_ord, sigma, valid) ==
    IF Cardinality(valid) < 3
    THEN \A p \in Pixels : IsNaN(rms_ord[p]) /\ rms_ord[p] # 0
    ELSE \A p \in Pixels : C16_FromValid(rms_ord[p], sigma, valid, p)

\* C16: for every order, a window whose sigma is zero or not finite is
\* missing; with fewer than 3 valid windows every pixel of the rms is NaN,
\* and never zero; with 3 or more every pixel has a finite value
\* interpolated from the valid windows only
C16_NoiseModelUsesValidWindows ==
    noise.pc = "returned" =>
        \A o \in Orders :
            Ap1(LAMBDA sigma :
                  Ap1(LAMBDA valid : C16_OrderOk(noise.rms[o], sigma, valid),
                      C16_Valid(sigma)),
                C16_Sigma(o))
\* order 0 has three or more valid windows with a zero window and a window
\* without signal between them, and another order has valid windows but
\* fewer than 3
C16_WitnessOrders(first, other, rms_other) ==
    /\ Cardinality(C16_Valid(first)) >= 3
    /\ \E a, b \in C16_Valid(first) :
          /\ first[a] # first[b]
          /\ \E z, n \in C16_Centres :
                /\ a < z /\ a < n /\ z < b /\ n < b
                /\ first[z] = 0 /\ IsNaN(first[n])
    /\ Cardinality(C16_Valid(other)) \in {1, 2}
    /\ \A p \in Pixels : IsNaN(rms_other[p])
C16_Witness ==
    /\ noise.pc = "returned"
    /\ Ap2(LAMBDA first, other : C16_WitnessOrders(first, other, noise.rms[1]),
           C16_Sigma(0), C16_Sigma(1))

\* ------------------------------------------------------------------------
\* Properties of spline_template
\* ------------------------------------------------------------------------
\* the wavelengths of the template samples that are not finite and lie
\* between two samples the splines are built from
C22_GapWaves ==
    {DopplerShift(fcall.args.twave[i], FNeg(fcall.args.systemic_vel)) :
        i \in {j \in DOMAIN fcall.args.twave :
                 /\ ~IsFinite(fcall.args.tflux[j])
                 /\ \E a, b \in DOMAIN fcall.args.twave :
                       /\ a < j /\ j < b
                       /\ IsFinite(fcall.args.tflux[a]) /\ IsFinite(fcall.args.tflux[b])}}
\* C22: the samples of the validity interpolant hold an invalid (0) value
\* at each gap of the template, and the interpolant is below the 0.99
\* threshold at a wavelength inside a gap
C22_MaskFlagsGaps ==
    fcall.pc = "returned" =>
        \A w \in C22_GapWaves :
            /\ \E k \in DOMAIN fcall.result.spline_mask :
                  fcall.result.spline_mask[k].w = w /\ fcall.result.spline_mask[k].f = 0
            /\ Interp1(fcall.result.spline_mask, w) < 99

====
